---------------------------- MODULE Spec2Model ----------------------------
(***************************************************************************)
(* A model of the sylt compiler front end (est31/FallGameJam2021):         *)
(*   - sylt-common/src/value.rs : Value equality and hashing               *)
(*   - src/syncomp.rs           : Compiler (constant pool, global          *)
(*                                extraction, code generation, errors)     *)
(*   - sylt-parser/src/expression.rs : the expression parser               *)
(*                                                                         *)
(* Source lines carry no behaviour that the properties below speak about,  *)
(* so spans are left out of tokens, AST nodes and opcodes.                 *)
(***************************************************************************)
EXTENDS Integers, Sequences, FiniteSets, TLC

VARIABLES
    \* ---- input of one compile and the position of Compiler::compile in it
    tree,                  \* Prog.modules: sequence of [path, statements]
    pc,                    \* where compile / extract_globals stands
    mi,                    \* index of the module a loop is at (1-based)
    si,                    \* index of the statement a loop is at (1-based)
    globals,               \* the local `globals` of extract_globals
    \* ---- fields of struct Compiler (syncomp.rs:47-62)
    blocks,                \* Vec<Block>: each [name, file, ops]
    path_to_namespace_id,  \* HashMap<String, NamespaceID>
    namespaces,            \* Vec<Namespace>
    panic,                 \* the sticky error flag
    errors,                \* Vec<Error>
    constants,             \* Vec<Value>
    values,                \* HashMap<Value, usize>
    \* ---- the process
    crashed,               \* a Rust panic (assert!, unimplemented!, index) unwound
    h2collide,             \* this process's hasher makes two different hash inputs collide
    result,                \* what compile returned: "none", "Ok" or "Err"
    \* ---- history
    attempts,              \* every expansion of compile_error!, in order
    calls,                 \* every call of Compiler::constant: its value, the slot
                           \* returned and the pool length before the call
    \* ---- the parser
    tokens,                \* the token stream handed to the parser
    parsed,                \* the ParseResult of expression() on it
    \* ---- the library entry points (value.rs, lingon_sylt.rs, lib.rs, time.rs)
    input,                 \* the arguments of the entry point that is called
    world,                 \* what the stages outside these files answer
    ret,                   \* what the entry point returned, "none" before
    game,                  \* lingon's Game: the loaded assets and sprite sheets
    log,                   \* the stages executed so far, in order
    runs                   \* the local `runs` of time.rs

vars == << tree, pc, mi, si, globals, blocks, path_to_namespace_id, namespaces,
           panic, errors, constants, values, crashed, h2collide, result,
           attempts, calls, tokens, parsed, input, world, ret, game, log, runs >>

compilerVars == << tree, pc, mi, si, globals, blocks, path_to_namespace_id,
                   namespaces, panic, errors, constants, values, crashed,
                   h2collide, result, attempts, calls >>

parserVars == << tokens, parsed >>

libraryVars == << input, world, ret, game, log, runs >>

\* what a call of a library entry point leaves alone
compileVars == << tree, mi, si, globals, blocks, path_to_namespace_id, namespaces,
                  panic, errors, constants, values, h2collide, result, attempts,
                  calls, tokens, parsed >>

-----------------------------------------------------------------------------
(***************************************************************************)
(* Bounds of the model.                                                    *)
(***************************************************************************)
\* Calls of Compiler::constant in one run of the constant-pool specification.
MaxCalls == 3
\* Statements in the whole program handed to Compiler::compile.
MaxStmts == 3
MaxInner == 3
MaxEntries == 2
MaxArgs == 2
MaxExternCalls == 2
MaxRuns == 2
MaxLoopRuns == 3
MaxElements == 2

-----------------------------------------------------------------------------
(***************************************************************************)
(* Value (sylt-common/src/value.rs).  A float is its f64 bit pattern cut   *)
(* to the top 16 bits (sign, 11 exponent bits, 4 mantissa bits); the       *)
(* floats of the model are those whose lower 48 mantissa bits are zero.    *)
(***************************************************************************)
\* +0.0, -0.0, 1.0, +inf, NaN as to_bits() >> 48
FloatBits == {0, 32768, 16368, 32752, 32760}

F64Exponent(b) == (b \div 16) % 2048
F64Mantissa(b) == b % 16
F64IsNaN(b) == F64Exponent(b) = 2047 /\ F64Mantissa(b) # 0
F64IsFinite(b) == F64Exponent(b) # 2047
F64IsZero(b) == b % 32768 = 0
\* f64's PartialEq: IEEE comparison
F64Eq(a, b) ==
    /\ ~F64IsNaN(a)
    /\ ~F64IsNaN(b)
    /\ (a = b \/ (F64IsZero(a) /\ F64IsZero(b)))

VNil == [tag |-> "Nil"]
VBool(b) == [tag |-> "Bool", b |-> b]
VInt(n) == [tag |-> "Int", n |-> n]
VFloat(bits) == [tag |-> "Float", n |-> bits]
VString(s) == [tag |-> "String", s |-> s]
VTuple(xs) == [tag |-> "Tuple", xs |-> xs]
VList(xs) == [tag |-> "List", xs |-> xs]
\* HashSet<Value> and HashMap<Value, Value> as a set of values and a set of
\* << key, value >> pairs
VSet(set) == [tag |-> "Set", set |-> set]
VDict(pairs) == [tag |-> "Dict", pairs |-> pairs]
VUnion(set) == [tag |-> "Union", set |-> set]
VUnknown == [tag |-> "Unknown"]
\* the variants that carry what a Type carries: Field, Blob, Instance, Iter,
\* Function, ExternFunction, Ty
VOf(tag, of) == [tag |-> tag, of |-> of]

RECURSIVE ValueEq(_, _)

\* One write to the Hasher: `w` bytes holding the integer `n`, or the bytes
\* of a string (w = 0).
HashWrite(w, n) == [w |-> w, n |-> n, s |-> ""]
HashWriteStr(s) == [w |-> 0, n |-> 0, s |-> s]

\* impl Hash for Value: does hashing trip assert!(a.is_finite())?
RECURSIVE HashPanics(_)
HashPanics(v) ==
    CASE v.tag = "Float" -> ~F64IsFinite(v.n)
      [] v.tag = "Tuple" -> \E i \in 1..Len(v.xs) : HashPanics(v.xs[i])
      [] OTHER -> FALSE

RECURSIVE HashSeq(_, _)
\* impl Hash for Value: the data fed to the hasher, in order
RECURSIVE HashData(_)
HashData(v) ==
    CASE v.tag = "Float" -> << HashWrite(8, v.n) >>
      [] v.tag = "Int" -> << HashWrite(8, v.n) >>
      [] v.tag = "Bool" -> << HashWrite(1, IF v.b THEN 1 ELSE 0) >>
      [] v.tag = "String" -> << HashWriteStr(v.s), HashWrite(1, 255) >>
      [] v.tag = "Tuple" -> << HashWrite(8, Len(v.xs)) >> \o HashSeq(v.xs, 1)
      [] v.tag = "Nil" -> << HashWrite(1, 0) >>
      [] OTHER -> << >>

HashSeq(xs, i) ==
    IF i > Len(xs) THEN << >> ELSE HashData(xs[i]) \o HashSeq(xs, i + 1)

\* HashSet / HashMap lookup of x where y is stored: the hashes lead to the
\* same entry, and the keys compare equal
Found(x, y) == (HashData(x) = HashData(y) \/ h2collide) /\ ValueEq(x, y)

\* `(Value::Union(a), b)` alone in the place of line 119
union_side_left_only(a, b) ==
    IF a.tag = "Union" THEN << a, b >> ELSE << >>

\* impl PartialEq, line 119: `(Value::Union(a), b) | (b, Value::Union(a))`
\* binds << the union, the other value >>
union_side(a, b) ==
    IF a.tag = "Union" THEN << a, b >>
    ELSE IF b.tag = "Union" THEN << b, a >>
    ELSE << >>

\* One comparison of elements that an arm of PartialEq asks for; `hashed`
\* when it is made by a HashSet / HashMap lookup, which finds y only when
\* it hashes like x.
Cmp(x, y, hashed) == [x |-> x, y |-> y, hashed |-> hashed]

\* impl PartialEq<Value> for Value, the arms that compare what the values
\* hold: for each element of a, the alternatives in b, each alternative a
\* list of comparisons that must all hold.  Tuples and lists compare element
\* by element; a HashSet or HashMap equals another of the same size when
\* each element is found in it; a union equals a value when any member does.
EqClauses(a, b) ==
    CASE a.tag = "Tuple" /\ b.tag = "Tuple" ->
            IF Len(a.xs) # Len(b.xs) THEN { { } }
            ELSE { { << Cmp(a.xs[i], b.xs[i], FALSE) >> } : i \in 1..Len(a.xs) }
      [] a.tag = "List" /\ b.tag = "List" ->
            IF Len(a.xs) # Len(b.xs) THEN { { } }
            ELSE { { << Cmp(a.xs[i], b.xs[i], FALSE) >> } : i \in 1..Len(a.xs) }
      [] a.tag = "Set" /\ b.tag = "Set" ->
            IF Cardinality(a.set) # Cardinality(b.set) THEN { { } }
            ELSE { { << Cmp(x, y, TRUE) >> : y \in b.set } : x \in a.set }
      [] a.tag = "Dict" /\ b.tag = "Dict" ->
            IF Cardinality(a.pairs) # Cardinality(b.pairs) THEN { { } }
            ELSE { { << Cmp(x[1], y[1], TRUE), Cmp(x[2], y[2], FALSE) >> : y \in b.pairs }
                   : x \in a.pairs }
      [] union_side(a, b) # << >> ->
            { { << Cmp(x, union_side(a, b)[2], FALSE) >> : x \in union_side(a, b)[1].set } }
      [] a.tag = "Nil" /\ b.tag = "Nil" -> { }
      [] OTHER -> { { } }

\* impl PartialEq<Value> for Value
ValueEq(a, b) ==
    CASE a.tag = "Float" /\ b.tag = "Float" -> F64Eq(a.n, b.n)
      [] a.tag = "Int" /\ b.tag = "Int" -> a.n = b.n
      [] a.tag = "Bool" /\ b.tag = "Bool" -> a.b = b.b
      [] a.tag = "String" /\ b.tag = "String" -> a.s = b.s
      [] OTHER ->
            \A clause \in EqClauses(a, b) : \E alt \in clause : \A i \in 1..Len(alt) :
                /\ alt[i].hashed => (HashData(alt[i].x) = HashData(alt[i].y) \/ h2collide)
                /\ ValueEq(alt[i].x, alt[i].y)

-----------------------------------------------------------------------------
(***************************************************************************)
(* struct Compiler as one record, so that the methods are operators from   *)
(* a compiler state to a compiler state.                                   *)
(***************************************************************************)
Self == [ blocks |-> blocks, path_to_namespace_id |-> path_to_namespace_id,
          namespaces |-> namespaces, panic |-> panic, errors |-> errors,
          constants |-> constants, values |-> values, crashed |-> crashed,
          attempts |-> attempts, calls |-> calls ]

\* HashMap<Value, usize>::entry(value): the keys the lookup can land on.
\* A stored key is found when it hashes like `value` and equals it.  A key
\* that equals `value` but hashes differently is outside HashMap's contract:
\* it is found only if the two hashes collide in this process.
MapEntry(map, value) ==
    LET sure == { k \in DOMAIN map : ValueEq(value, k) /\ HashData(k) = HashData(value) }
        maybe == { k \in DOMAIN map : ValueEq(value, k) /\ HashData(k) # HashData(value) }
    IN  IF sure # {} THEN sure
        ELSE IF h2collide THEN maybe
        ELSE {}

\* Compiler::constant: the slot of Op::Constant(slot) it returns
constant_slot(c, value) ==
    LET occ == MapEntry(c.values, value)
    IN  IF occ = {} THEN Len(c.constants)
        ELSE c.values[CHOOSE k \in occ : TRUE]

\* Compiler::constant: the compiler after the call
constant(c, value) ==
    IF c.crashed THEN c
    ELSE IF HashPanics(value) THEN [c EXCEPT !.crashed = TRUE]
    ELSE IF MapEntry(c.values, value) = {}
    THEN [c EXCEPT !.values = (value :> Len(c.constants)) @@ @,
                   !.constants = Append(@, value),
                   !.calls = Append(@, [value |-> value, slot |-> Len(c.constants),
                                        len |-> Len(c.constants)])]
    ELSE [c EXCEPT !.calls = Append(@, [value |-> value,
                                        slot |-> constant_slot(c, value),
                                        len |-> Len(c.constants)])]

-----------------------------------------------------------------------------
(***************************************************************************)
(* The syntax tree the compiler walks (crate::syntree, as syncomp.rs and   *)
(* expression.rs use it).                                                  *)
(***************************************************************************)
EInt(n) == [kind |-> "Int", n |-> n]
EFloat(bits) == [kind |-> "Float", n |-> bits]
EBool(b) == [kind |-> "Bool", b |-> b]
EStr(s) == [kind |-> "Str", s |-> s]
ENil == [kind |-> "Nil"]
EGet(a) == [kind |-> "Get", a |-> a]
EBin(kind, l, r) == [kind |-> kind, l |-> l, r |-> r]
EUn(kind, e) == [kind |-> kind, e |-> e]
EColl(kind, xs) == [kind |-> kind, xs |-> xs]
EInstance(blob, fields) == [kind |-> "Instance", blob |-> blob, fields |-> fields]

ARead(name) == [kind |-> "Read", name |-> name]
ACall(f, args) == [kind |-> "Call", f |-> f, args |-> args]
AAccess(a, b) == [kind |-> "Access", a |-> a, b |-> b]
AIndex(a, e) == [kind |-> "Index", a |-> a, e |-> e]

SUse(name) == [kind |-> "Use", name |-> name]
SDefinition(name, value) == [kind |-> "Definition", name |-> name, value |-> value]
SAssignment(target, value) == [kind |-> "Assignment", target |-> target, value |-> value]
SPrint(value) == [kind |-> "Print", value |-> value]
SStatementExpression(value) == [kind |-> "StatementExpression", value |-> value]
SEmpty == [kind |-> "EmptyStatement"]
\* any StatementKind that neither extract_globals nor statement() knows
SRet(value) == [kind |-> "Ret", value |-> value]

\* enum Name
Slot(n) == [kind |-> "Slot", n |-> n]
Namespace(n) == [kind |-> "Namespace", n |-> n]

\* enum Op, as far as syncomp.rs emits it
Op(name) == [op |-> name]
OpN(name, n) == [op |-> name, n |-> n]

\* the message of an Error::CompileError: its format string and argument
Message(kind, name) == [kind |-> kind, name |-> name]

\* Block::new(name, file)
Block(name, file) == [name |-> name, file |-> file, ops |-> << >>]

\* a module's path, and Path::file_stem
Path(dir, stem) == [dir |-> dir, stem |-> stem, ext |-> "sy"]
file_stem(path) == path.stem
\* Path::display, the whole path as it is printed
display(path) == path.dir \o "/" \o path.stem \o "." \o path.ext

-----------------------------------------------------------------------------
(***************************************************************************)
(* Code generation (syncomp.rs:64-311).                                    *)
(***************************************************************************)
\* Compiler::current_file
current_file(c) == c.blocks[Len(c.blocks)].file

\* compile_error! without `$compiler.errors.push(err)`
compile_error_unrecorded(c, msg) ==
    IF c.crashed THEN c
    ELSE [c EXCEPT !.panic = TRUE,
                   !.attempts = Append(@, [file |-> current_file(c), message |-> msg])]

\* compile_error! without the `if !$compiler.panic` around it
compile_error_unguarded(c, msg) ==
    IF c.crashed THEN c
    ELSE [c EXCEPT !.panic = TRUE,
                   !.errors = Append(@, [file |-> current_file(c), message |-> msg]),
                   !.attempts = Append(@, [file |-> current_file(c), message |-> msg])]

\* macro compile_error!
compile_error(c, msg) ==
    IF c.crashed THEN c
    ELSE IF ~c.panic
    THEN [c EXCEPT !.panic = TRUE,
                   !.errors = Append(@, [file |-> current_file(c), message |-> msg]),
                   !.attempts = Append(@, [file |-> current_file(c), message |-> msg])]
    ELSE [c EXCEPT !.attempts = Append(@, [file |-> current_file(c), message |-> msg])]

\* Compiler::add_op
add_op(c, op) ==
    IF c.crashed THEN c ELSE [c EXCEPT !.blocks[Len(c.blocks)].ops = Append(@, op)]

RECURSIVE add_ops(_, _, _)
\* `for op in ops { self.add_op(span, *op); }`
add_ops(c, opseq, i) ==
    IF i > Len(opseq) THEN c ELSE add_ops(add_op(c, opseq[i]), opseq, i + 1)

\* Compiler::push
push(c, value) ==
    IF c.crashed THEN c
    ELSE add_op(constant(c, value), OpN("Constant", constant_slot(c, value)))

\* read with the name looked up in every namespace, not only namespaces[0]
read_any_namespace(c, name) ==
    IF c.crashed THEN c
    ELSE IF \E i \in 1..Len(c.namespaces) :
              name \in DOMAIN c.namespaces[i] /\ c.namespaces[i][name].kind = "Slot"
    THEN add_op(c, OpN("ReadGlobal",
                       c.namespaces[CHOOSE i \in 1..Len(c.namespaces) :
                                      /\ name \in DOMAIN c.namespaces[i]
                                      /\ c.namespaces[i][name].kind = "Slot"][name].n))
    ELSE compile_error(c, Message("NoActiveVariable", name))

\* Compiler::read
read(c, name) ==
    IF c.crashed THEN c
    ELSE IF name \in DOMAIN c.namespaces[1] /\ c.namespaces[1][name].kind = "Slot"
    THEN add_op(c, OpN("ReadGlobal", c.namespaces[1][name].n))
    ELSE compile_error(c, Message("NoActiveVariable", name))

\* Compiler::set
set(c, name) ==
    IF c.crashed THEN c
    ELSE IF name \in DOMAIN c.namespaces[1] /\ c.namespaces[1][name].kind = "Slot"
    THEN add_op(c, OpN("AssignGlobal", c.namespaces[1][name].n))
    ELSE compile_error(c, Message("NoActiveVariable", name))

\* the opcodes after the operands of a binary expression kind
BinOps(kind) ==
    CASE kind = "Add" -> << Op("Add") >>
      [] kind = "Sub" -> << Op("Sub") >>
      [] kind = "Mul" -> << Op("Mul") >>
      [] kind = "Div" -> << Op("Div") >>
      [] kind = "Eq" -> << Op("Equal") >>
      [] kind = "Neq" -> << Op("Equal"), Op("Not") >>
      [] kind = "Gt" -> << Op("Greater") >>
      [] kind = "Gteq" -> << Op("Less"), Op("Not") >>
      [] kind = "Lt" -> << Op("Less") >>
      [] kind = "Lteq" -> << Op("Greater"), Op("Not") >>
      [] kind = "AssertEq" -> << Op("Equal"), Op("Assert") >>
      [] kind = "In" -> << Op("Contains") >>
      [] kind = "And" -> << Op("And") >>
      [] kind = "Or" -> << Op("Or") >>

BinKinds == { "Add", "Sub", "Mul", "Div", "Eq", "Neq", "Gt", "Gteq", "Lt",
              "Lteq", "AssertEq", "In", "And", "Or" }

\* the opcodes after the operand of a unary expression kind
UnOps(kind) ==
    CASE kind = "Neg" -> << Op("Neg") >>
      [] kind = "Not" -> << Op("Neg") >>

UnKinds == { "Neg", "Not" }

CollKinds == { "Tuple", "List", "Set", "Dict" }

RECURSIVE expression(_, _)
RECURSIVE assignable(_, _)
RECURSIVE expressions(_, _, _)

RECURSIVE expressions_last_first(_, _, _)
\* `for expr in x.iter().rev() { self.expression(expr); }`
expressions_last_first(c, xs, i) ==
    IF i > Len(xs) THEN c ELSE expression(expressions_last_first(c, xs, i + 1), xs[i])

\* `for expr in x.iter() { self.expression(expr); }`
expressions(c, xs, i) ==
    IF i > Len(xs) THEN c ELSE expressions(expression(c, xs[i]), xs, i + 1)

\* Compiler::assignable
assignable(c, ass) ==
    IF c.crashed THEN c
    ELSE CASE ass.kind = "Read" -> read(c, ass.name)
           [] ass.kind = "Call" ->
                add_op(expressions(assignable(c, ass.f), ass.args, 1),
                       OpN("Call", Len(ass.args)))
           [] ass.kind = "Access" -> assignable(assignable(c, ass.a), ass.b)
           [] ass.kind = "Index" ->
                add_op(expression(assignable(c, ass.a), ass.e), Op("GetIndex"))

\* bin_op with the operands compiled in the other order
bin_op_operands_swapped(c, a, b, opseq) == add_ops(expression(expression(c, b), a), opseq, 1)

\* Compiler::bin_op
bin_op(c, a, b, opseq) == add_ops(expression(expression(c, a), b), opseq, 1)

\* Compiler::un_op
un_op(c, a, opseq) == add_ops(expression(c, a), opseq, 1)

\* Compiler::expression
expression(c, e) ==
    IF c.crashed THEN c
    ELSE CASE e.kind = "Get" -> assignable(c, e.a)
           [] e.kind \in BinKinds -> bin_op(c, e.l, e.r, BinOps(e.kind))
           [] e.kind \in UnKinds -> un_op(c, e.e, UnOps(e.kind))
           [] e.kind \in CollKinds ->
                add_op(expressions(c, e.xs, 1), OpN(e.kind, Len(e.xs)))
           [] e.kind = "Float" -> push(c, VFloat(e.n))
           [] e.kind = "Bool" -> push(c, VBool(e.b))
           [] e.kind = "Int" -> push(c, VInt(e.n))
           [] e.kind = "Str" -> push(c, VString(e.s))
           [] e.kind = "Nil" -> push(c, VNil)
           \* `_ => { unimplemented!(); }`
           [] OTHER -> [c EXCEPT !.crashed = TRUE]

\* Compiler::statement, lines 275-292: the match on the target's kind
assignment_target(c, target, value) ==
    CASE target.kind = "Read" -> set(expression(c, value), target.name)
      [] target.kind = "Call" -> compile_error(c, Message("AssignToCall", ""))
      \* unimplemented!("Assignment to accesses is not implemented")
      [] target.kind = "Access" -> [c EXCEPT !.crashed = TRUE]
      [] target.kind = "Index" ->
            add_op(expression(expression(assignable(c, target.a), target.e), value),
                   Op("AssignIndex"))

\* Compiler::statement
statement(c, st) ==
    IF c.crashed THEN c
    ELSE CASE st.kind = "EmptyStatement" -> c
           [] st.kind = "Print" ->
                add_op(expression(c, st.value), Op("Print"))
           \* define() returns 0 and activate() does nothing
           [] st.kind = "Definition" -> expression(c, st.value)
           [] st.kind = "Assignment" ->
                expression(assignment_target(c, st.target, st.value), st.value)
           [] st.kind = "StatementExpression" -> expression(c, st.value)
           [] st.kind = "Use" -> c
           \* `_ => { unimplemented!(); }`
           [] OTHER -> [c EXCEPT !.crashed = TRUE]

-----------------------------------------------------------------------------
(***************************************************************************)
(* Tokens and the parser's Context.  The lexer, Context, Prec and          *)
(* assignable() live in sylt-parser/src/lib.rs; they are modelled from     *)
(* the way expression.rs uses them and from the specification.             *)
(***************************************************************************)
T(name) == [t |-> name]
TInt(n) == [t |-> "Int", n |-> n]
TFloat(bits) == [t |-> "Float", n |-> bits]
TBool(b) == [t |-> "Bool", b |-> b]
TString(s) == [t |-> "String", s |-> s]
TIdentifier(s) == [t |-> "Identifier", s |-> s]

\* Context::token: the token at the position, T::EOF past the end
token(toks, p) == IF p \in 1..Len(toks) THEN toks[p] ELSE T("EOF")
\* Context::skip_if
skip_if(toks, p, t) == IF token(toks, p).t = t THEN p + 1 ELSE p
RECURSIVE skip_while(_, _, _)
\* Context::skip_while
skip_while(toks, p, t) ==
    IF token(toks, p).t = t THEN skip_while(toks, p + 1, t) ELSE p

\* ParseResult: Ok((ctx, value)) and Err((ctx, errors)); a failure with
\* `panicked` is a Rust panic, which no `if let Ok(..)` catches
Ok(p, e) == [ok |-> TRUE, ctx |-> p, expr |-> e]
Err(p, errs) == [ok |-> FALSE, ctx |-> p, errors |-> errs, panicked |-> FALSE]
Panicked(p) == [ok |-> FALSE, ctx |-> p, errors |-> << >>, panicked |-> TRUE]
\* raise_syntax_error!
SyntaxError(p, msg) == Err(p, << msg >>)

\* enum Prec, lowest first: index/call > factor > term > comparison >
\* boolean-and > boolean-or > assert > arrow
PrecOrder == << "No", "Arrow", "Assert", "BoolOr", "BoolAnd", "Comp", "Term",
                "Factor", "Index" >>
PrecRank(prec) == CHOOSE i \in 1..Len(PrecOrder) : PrecOrder[i] = prec
\* Prec's PartialOrd: a <= b
PrecLe(a, b) == PrecRank(a) <= PrecRank(b)
\* Prec::next: the next-higher class, the highest one staying itself
PrecNext(prec) ==
    IF PrecRank(prec) = Len(PrecOrder) THEN prec ELSE PrecOrder[PrecRank(prec) + 1]

-----------------------------------------------------------------------------
(***************************************************************************)
(* The expression parser (sylt-parser/src/expression.rs).  Each `let       *)
(* (ctx, x) = f(ctx)?;` is an operator that takes f's result.              *)
(***************************************************************************)
\* precedence()
precedence(tok) ==
    CASE tok.t = "LeftBracket" -> "Index"
      [] tok.t \in { "Star", "Slash" } -> "Factor"
      [] tok.t \in { "Minus", "Plus" } -> "Term"
      [] tok.t \in { "EqualEqual", "Greater", "GreaterEqual", "Less", "LessEqual",
                     "NotEqual" } -> "Comp"
      [] tok.t = "And" -> "BoolAnd"
      [] tok.t = "Or" -> "BoolOr"
      [] tok.t = "In" -> "Index"
      [] tok.t = "AssertEqual" -> "Assert"
      [] tok.t = "Arrow" -> "Arrow"
      [] OTHER -> "No"

\* value()
parse_value(toks, p) ==
    LET tok == token(toks, p)
    IN  CASE tok.t = "Float" -> Ok(p + 1, EFloat(tok.n))
          [] tok.t = "Int" -> Ok(p + 1, EInt(tok.n))
          [] tok.t = "Bool" -> Ok(p + 1, EBool(tok.b))
          [] tok.t = "Nil" -> Ok(p + 1, ENil)
          [] tok.t = "String" -> Ok(p + 1, EStr(tok.s))
          [] OTHER -> SyntaxError(p + 1, "Cannot parse value")

\* the expression kind infix() builds for a binary operator token
InfixKind(t) ==
    CASE t = "Plus" -> "Add"
      [] t = "Minus" -> "Sub"
      [] t = "Star" -> "Mul"
      [] t = "Slash" -> "Div"
      [] t = "EqualEqual" -> "Eq"
      [] t = "NotEqual" -> "Neq"
      [] t = "Greater" -> "Gt"
      [] t = "GreaterEqual" -> "Gteq"
      [] t = "Less" -> "Lt"
      [] t = "LessEqual" -> "Lteq"
      [] t = "And" -> "And"
      [] t = "Or" -> "Or"
      [] t = "AssertEqual" -> "AssertEq"
      [] t = "In" -> "In"

InfixTokens == { "Plus", "Minus", "Star", "Slash", "EqualEqual", "NotEqual",
                 "Greater", "GreaterEqual", "Less", "LessEqual", "And", "Or",
                 "AssertEqual", "In" }

\* `args.push(*lhs)` in the place of `args.insert(0, *lhs)`
arrow_args_pushed(lhs, args) == Append(args, lhs)

\* infix(), line 246: `args.insert(0, *lhs)`
arrow_args(lhs, args) == << lhs >> \o args

\* infix(), lines 214-263: after the right-hand side is parsed
infix_rhs(op, lhs, r) ==
    IF ~r.ok THEN r
    ELSE CASE op.t \in InfixTokens -> Ok(r.ctx, EBin(InfixKind(op.t), lhs, r.expr))
           [] op.t = "Arrow" ->
                IF r.expr.kind = "Get" /\ r.expr.a.kind = "Call"
                THEN Ok(r.ctx, EGet(ACall(r.expr.a.f, arrow_args(lhs, r.expr.a.args))))
                ELSE SyntaxError(r.ctx, "Expected a call-expression after '->'")
           [] OTHER -> Err(r.ctx, << >>)

\* unary(), lines 192-202: after the operand is parsed
unary_operand(op, r) ==
    IF ~r.ok THEN r
    ELSE CASE op.t = "Minus" -> Ok(r.ctx, EUn("Neg", r.expr))
           [] op.t = "Bang" -> Ok(r.ctx, EUn("Not", r.expr))
           [] OTHER -> SyntaxError(r.ctx, "Invalid unary operator")

\* expect!(ctx, T::X, msg): the result when the token is not X, else nothing
\* is raised and the context skips it
Expects(toks, p, t) == token(toks, p).t = t

\* `let mut is_tuple = false` in the place of line 280
is_tuple_never(tok) == FALSE

\* grouping_or_tuple(), line 280: the first value of is_tuple
is_tuple_initially(tok) == tok.t \in { "Comma", "RightParen" }

\* grouping_or_tuple(), lines 301-312: after the loop.  The result carries
\* the locals `exprs` and `is_tuple` as they are when the function returns.
grouping_end(toks, p, exprs, is_tuple) ==
    IF ~Expects(toks, p, "RightParen") THEN SyntaxError(p, "Expected ')'")
    ELSE IF is_tuple
    THEN [ok |-> TRUE, ctx |-> p + 1, expr |-> EColl("Tuple", exprs),
          exprs |-> exprs, is_tuple |-> is_tuple]
    \* exprs.remove(0) panics on an empty Vec
    ELSE IF exprs = << >> THEN Panicked(p + 1)
    ELSE [ok |-> TRUE, ctx |-> p + 1, expr |-> exprs[1],
          exprs |-> exprs, is_tuple |-> is_tuple]

\* set_or_dict(), line 453: is this element a `key: value` pair?  is_dict is
\* "None", "True" or "False"
dict_pair_unremembered(is_dict, tok) == tok.t = "Colon"

dict_pair(is_dict, tok) ==
    IF is_dict = "None" THEN tok.t = "Colon" ELSE is_dict = "True"

\* Option<bool> from a bool
Some(b) == IF b THEN "True" ELSE "False"

RECURSIVE parse_expression(_, _)
RECURSIVE parse_precedence(_, _, _)
RECURSIVE parse_precedence_loop(_, _, _, _)
RECURSIVE prefix(_, _)
RECURSIVE infix(_, _, _)
RECURSIVE unary(_, _)
RECURSIVE grouping_or_tuple(_, _)
RECURSIVE grouping_loop(_, _, _, _)
RECURSIVE blob(_, _)
RECURSIVE blob_loop(_, _, _, _)
RECURSIVE list(_, _)
RECURSIVE list_loop(_, _, _)
RECURSIVE set_or_dict(_, _)
RECURSIVE set_or_dict_loop(_, _, _, _)
RECURSIVE parse_assignable(_, _)
RECURSIVE sub_assignable(_, _, _)
RECURSIVE assignable_call(_, _, _, _)
RECURSIVE function_loop(_, _, _)

\* parse_precedence(), lines 88-98: after the prefix is parsed
parse_precedence_prefixed(toks, prec, r) ==
    IF ~r.ok THEN r ELSE parse_precedence_loop(toks, prec, r.ctx, r.expr)

\* parse_precedence(), lines 90-96: after infix() returned
parse_precedence_infixed(toks, prec, p, expr, r) ==
    IF r.ok THEN parse_precedence_loop(toks, prec, r.ctx, r.expr)
    ELSE IF r.panicked THEN r
    ELSE Ok(p, expr)

\* parse_precedence(), the while loop
parse_precedence_loop(toks, prec, p, expr) ==
    IF PrecLe(prec, precedence(token(toks, p)))
    THEN parse_precedence_infixed(toks, prec, p, expr, infix(toks, p, expr))
    ELSE Ok(p, expr)

\* parse_precedence()
parse_precedence(toks, p, prec) ==
    parse_precedence_prefixed(toks, prec, prefix(toks, p))

\* infix() parsing the right-hand side at the operator's own precedence
infix_same_class(toks, p, lhs) ==
    infix_rhs(token(toks, p), lhs,
              parse_precedence(toks, p + 1, precedence(token(toks, p))))

\* infix()
infix(toks, p, lhs) ==
    infix_rhs(token(toks, p), lhs,
              parse_precedence(toks, p + 1, PrecNext(precedence(token(toks, p)))))

\* unary()
unary(toks, p) ==
    unary_operand(token(toks, p), parse_precedence(toks, p + 1, "Factor"))

\* prefix(), lines 168-176: the assignable read as an expression
prefix_get(r) == IF ~r.ok THEN r ELSE Ok(r.ctx, EGet(r.expr))

\* prefix(), lines 165-177: after the attempt to parse a blob
prefix_identifier(toks, p, r) ==
    IF r.ok THEN r
    ELSE IF r.panicked THEN r
    ELSE prefix_get(parse_assignable(toks, p))

\* prefix()
prefix(toks, p) ==
    LET tok == token(toks, p)
    IN  CASE tok.t = "LeftParen" -> grouping_or_tuple(toks, p)
          [] tok.t = "LeftBracket" -> list(toks, p)
          [] tok.t = "LeftBrace" -> set_or_dict(toks, p)
          [] tok.t \in { "Float", "Int", "Bool", "String", "Nil" } -> parse_value(toks, p)
          [] tok.t \in { "Minus", "Bang" } -> unary(toks, p)
          [] tok.t = "Identifier" -> prefix_identifier(toks, p, blob(toks, p))
          [] OTHER -> SyntaxError(p, "No valid expression starts with this token")

\* grouping_or_tuple(), lines 291-297: after an inner expression is parsed
grouping_inner(toks, exprs, is_tuple, r) ==
    IF ~r.ok THEN r
    ELSE grouping_loop(toks, r.ctx, Append(exprs, r.expr),
                       is_tuple \/ token(toks, r.ctx).t = "Comma")

\* grouping_or_tuple(), the loop; p is the context before `skip_if(T::Comma)`
grouping_loop(toks, p, exprs, is_tuple) ==
    IF token(toks, skip_if(toks, p, "Comma")).t \in { "EOF", "RightParen" }
    THEN grouping_end(toks, skip_if(toks, p, "Comma"), exprs, is_tuple)
    ELSE grouping_inner(toks, exprs, is_tuple,
                        parse_expression(toks, skip_if(toks, p, "Comma")))

\* grouping_or_tuple()
grouping_or_tuple(toks, p) ==
    IF ~Expects(toks, p, "LeftParen") THEN SyntaxError(p, "Expected '('")
    ELSE grouping_loop(toks, p + 1, << >>, is_tuple_initially(token(toks, p + 1)))

\* list(), lines 392-396: after an inner expression is parsed
list_inner(toks, exprs, r) ==
    IF ~r.ok THEN r
    ELSE list_loop(toks, skip_while(toks, skip_if(toks, r.ctx, "Comma"), "Newline"),
                   Append(exprs, r.expr))

\* list(), the loop and the end
list_loop(toks, p, exprs) ==
    IF token(toks, p).t \in { "EOF", "RightBracket" }
    THEN IF Expects(toks, p, "RightBracket")
         THEN Ok(p + 1, EColl("List", exprs))
         ELSE SyntaxError(p, "Expected ']'")
    ELSE list_inner(toks, exprs, parse_expression(toks, p))

\* list()
list(toks, p) ==
    IF ~Expects(toks, p, "LeftBracket") THEN SyntaxError(p, "Expected '['")
    ELSE list_loop(toks, skip_while(toks, p + 1, "Newline"), << >>)

\* set_or_dict() without the `exprs.push(expr)` of line 460
set_or_dict_value_dropped(toks, exprs, r) ==
    IF ~r.ok THEN r
    ELSE set_or_dict_loop(toks, skip_if(toks, r.ctx, "Comma"), exprs, "True")

\* set_or_dict(), lines 456-461: after the value of a pair is parsed
set_or_dict_value(toks, exprs, r) ==
    IF ~r.ok THEN r
    ELSE set_or_dict_loop(toks, skip_if(toks, r.ctx, "Comma"),
                          Append(exprs, r.expr), "True")

\* set_or_dict(), lines 447-461: after an element (or key) is parsed
set_or_dict_element(toks, exprs, is_dict, r) ==
    IF ~r.ok THEN r
    ELSE IF dict_pair(is_dict, token(toks, r.ctx))
    THEN IF Expects(toks, r.ctx, "Colon")
         THEN set_or_dict_value(toks, Append(exprs, r.expr),
                                parse_expression(toks, r.ctx + 1))
         ELSE SyntaxError(r.ctx, "Expected ':' for dict pair")
    ELSE set_or_dict_loop(toks, skip_if(toks, r.ctx, "Comma"),
                          Append(exprs, r.expr), "False")

\* set_or_dict(), lines 466-476: after the loop
set_or_dict_end(toks, p, exprs, is_dict) ==
    IF ~Expects(toks, p, "RightBrace") THEN SyntaxError(p, "Expected '}'")
    ELSE IF is_dict = "True" THEN Ok(p + 1, EColl("Dict", exprs))
    ELSE Ok(p + 1, EColl("Set", exprs))

\* set_or_dict(), the loop
set_or_dict_loop(toks, p, exprs, is_dict) ==
    CASE token(toks, p).t \in { "EOF", "RightBrace" } ->
            set_or_dict_end(toks, p, exprs, is_dict)
      [] token(toks, p).t = "Colon" ->
            IF is_dict # "None"
            THEN SyntaxError(p, IF is_dict = "True"
                                THEN "Empty dict pair is invalid in a dict"
                                ELSE "Empty dict pair is invalid in a set")
            ELSE set_or_dict_loop(toks, p + 1, exprs, "True")
      [] OTHER ->
            set_or_dict_element(toks, exprs, is_dict, parse_expression(toks, p))

\* set_or_dict()
set_or_dict(toks, p) ==
    IF ~Expects(toks, p, "LeftBrace") THEN SyntaxError(p, "Expected '{'")
    ELSE set_or_dict_loop(toks, p + 1, << >>, "None")

\* blob(), lines 341-349: after a field's value is parsed
blob_field(toks, blobname, fields, name, r) ==
    IF ~r.ok THEN r
    ELSE IF token(toks, r.ctx).t \notin { "Comma", "Newline", "RightBrace" }
    THEN SyntaxError(r.ctx, "Expected a delimiter: newline or ','")
    ELSE blob_loop(toks, skip_if(toks, r.ctx, "Comma"), blobname,
                   Append(fields, << name, r.expr >>))

\* blob() without the check for `else` of lines 359-361
blob_end_else_accepted(toks, p, blobname, fields) ==
    IF ~Expects(toks, p, "RightBrace")
    THEN SyntaxError(p, "Expected '}' after blob initalizer")
    ELSE Ok(p + 1, EInstance(blobname, fields))

\* blob(), lines 357-370: after the loop
blob_end(toks, p, blobname, fields) ==
    IF ~Expects(toks, p, "RightBrace")
    THEN SyntaxError(p, "Expected '}' after blob initalizer")
    ELSE IF token(toks, p + 1).t = "Else"
    THEN SyntaxError(p + 1, "Parsed a blob instance not an if-statement")
    ELSE Ok(p + 1, EInstance(blobname, fields))

\* blob(), the loop
blob_loop(toks, p, blobname, fields) ==
    CASE token(toks, p).t = "Newline" -> blob_loop(toks, p + 1, blobname, fields)
      [] token(toks, p).t \in { "RightBrace", "EOF" } ->
            blob_end(toks, p, blobname, fields)
      [] token(toks, p).t = "Identifier" ->
            IF Expects(toks, p + 1, "Colon")
            THEN blob_field(toks, blobname, fields, token(toks, p).s,
                            parse_expression(toks, p + 2))
            ELSE SyntaxError(p + 1, "Expected ':' after field name")
      [] OTHER -> SyntaxError(p, "Unexpected token in blob initalizer")

\* blob(), lines 318-319: after the blob's name is parsed
blob_named(toks, r) ==
    IF ~r.ok THEN r
    ELSE IF ~Expects(toks, r.ctx, "LeftBrace")
    THEN SyntaxError(r.ctx, "Expected '{' after blob name")
    ELSE blob_loop(toks, r.ctx + 1, r.expr, << >>)

\* blob()
blob(toks, p) == blob_named(toks, parse_assignable(toks, p))

\* assignable(): the arguments of a call, after one is parsed
assignable_argument(toks, callee, args, r) ==
    IF ~r.ok THEN r
    ELSE assignable_call(toks, skip_if(toks, r.ctx, "Comma"), callee,
                         Append(args, r.expr))

\* assignable(): the arguments of a call up to `)`
assignable_call(toks, p, callee, args) ==
    IF token(toks, p).t \in { "EOF", "RightParen" }
    THEN IF Expects(toks, p, "RightParen")
         THEN sub_assignable(toks, p + 1, ACall(callee, args))
         ELSE SyntaxError(p, "Expected ')' after calling function")
    ELSE assignable_argument(toks, callee, args, parse_expression(toks, p))

\* assignable(): the index of an indexing, after it is parsed
assignable_index(toks, indexed, r) ==
    IF ~r.ok THEN r
    ELSE IF Expects(toks, r.ctx, "RightBracket")
    THEN sub_assignable(toks, r.ctx + 1, AIndex(indexed, r.expr))
    ELSE SyntaxError(r.ctx, "Expected ']' after index")

\* assignable(): calls, indexings and accesses chained to an assignable
sub_assignable(toks, p, a) ==
    CASE token(toks, p).t = "LeftParen" -> assignable_call(toks, p + 1, a, << >>)
      [] token(toks, p).t = "LeftBracket" ->
            assignable_index(toks, a, parse_expression(toks, p + 1))
      [] token(toks, p).t = "Dot" ->
            IF token(toks, p + 1).t = "Identifier"
            THEN sub_assignable(toks, p + 2, AAccess(a, ARead(token(toks, p + 1).s)))
            ELSE SyntaxError(p + 1, "Expected an identifier after '.'")
      [] OTHER -> Ok(p, a)

\* assignable(): Read(name) with what is chained to it
parse_assignable(toks, p) ==
    IF token(toks, p).t = "Identifier"
    THEN sub_assignable(toks, p + 1, ARead(token(toks, p).s))
    ELSE SyntaxError(p, "Assignable expressions have to start with an identifier")

\* parse_type and block_statement are defined in the crate root (lib.rs),
\* beside assignable(); function() is followed up to its calls of them, and
\* the two reject the tokens they are given at the position they are given
parse_type(toks, p) == SyntaxError(p, "parse_type")
block_statement(toks, p) == SyntaxError(p, "block_statement")

\* function(), lines 68-82: the body and the Function expression
function_body(params, ret_type, r) ==
    IF ~r.ok THEN r
    ELSE Ok(r.ctx, [kind |-> "Function", name |-> "lambda", params |-> params,
                    ret |-> ret_type, body |-> r.expr])

\* function(), lines 34-46: the return type after `->`, Void when it does
\* not parse
function_ret(toks, p, params, r) ==
    IF r.ok
    THEN function_body(params, r.expr, block_statement(toks, r.ctx))
    ELSE function_body(params, [kind |-> "Resolved", ty |-> "Void"],
                       block_statement(toks, p))

\* function(), lines 21-30: after the type of a parameter is parsed
function_param(toks, params, name, r) ==
    IF ~r.ok THEN r
    ELSE IF token(toks, r.ctx).t \in { "Comma", "Arrow", "LeftBrace" }
    THEN function_loop(toks, skip_if(toks, r.ctx, "Comma"),
                       Append(params, << name, r.expr >>))
    ELSE SyntaxError(r.ctx, "Expected ',' '{' or '->' after type parameter")

\* function(), the loop of lines 11-66; the token's kind stands for its
\* Debug form in the last message
function_loop(toks, p, params) ==
    CASE token(toks, p).t = "Identifier" ->
            IF Expects(toks, p + 1, "Colon")
            THEN function_param(toks, params, token(toks, p).s,
                                parse_type(toks, p + 2))
            ELSE SyntaxError(p + 1, "Expected ':' after parameter name")
      [] token(toks, p).t = "Arrow" ->
            function_ret(toks, p + 1, params, parse_type(toks, p + 1))
      [] token(toks, p).t = "LeftBrace" ->
            function_body(params, [kind |-> "Resolved", ty |-> "Void"],
                          block_statement(toks, p))
      [] OTHER ->
            SyntaxError(p, "Didn't expect '" \o token(toks, p).t
                               \o "' in function")

\* function()
function(toks, p) ==
    IF ~Expects(toks, p, "Fn")
    THEN SyntaxError(p, "Expected 'fn' for function expression")
    ELSE function_loop(toks, p + 1, << >>)

\* expression()
parse_expression(toks, p) ==
    IF token(toks, p).t = "Fn"
    THEN function(toks, p)
    ELSE parse_precedence(toks, p, "No")

-----------------------------------------------------------------------------
(***************************************************************************)
(* Global extraction (syncomp.rs:342-412), one loop iteration at a time.   *)
(***************************************************************************)
\* the first loop with HashMap::insert in the place of the match on
\* entry(): a module of a registered name takes the name over
register_module_inserted(c, full_path) ==
    LET slot == Cardinality(DOMAIN c.path_to_namespace_id)
        path == file_stem(full_path)
    IN  [c EXCEPT !.path_to_namespace_id = (path :> slot) @@ @,
                  !.namespaces = Append(@, << >>)]

\* first loop of extract_globals, one module
register_module(c, full_path) ==
    LET slot == Cardinality(DOMAIN c.path_to_namespace_id)
        path == file_stem(full_path)
    IN  IF path \notin DOMAIN c.path_to_namespace_id
        THEN [c EXCEPT !.path_to_namespace_id = (path :> slot) @@ @,
                       !.namespaces = Append(@, << >>)]
        ELSE compile_error(c, Message("ModuleTwice", display(full_path)))

\* the slot without the +1
definition_slot_no_offset(g) == g

\* the slot a Definition is given when `globals` slots are taken
\* NOTE(ed): +1 is to ignore the entry point
definition_slot(g) == g + 1

\* second loop of extract_globals, one statement of the module at `full_path`:
\* the compiler and the local `globals` after it
scan_statement(c, g, full_path, st) ==
    LET slot == c.path_to_namespace_id[file_stem(full_path)]
        namespace == c.namespaces[slot + 1]
        same == [c |-> c, globals |-> g]
    IN  CASE st.kind = "Use" ->
               \* `self.path_to_namespace_id[name]` panics on a missing key
               IF st.name \notin DOMAIN c.path_to_namespace_id
               THEN [c |-> [c EXCEPT !.crashed = TRUE], globals |-> g]
               ELSE IF st.name \notin DOMAIN namespace
               THEN [c |-> [c EXCEPT !.namespaces[slot + 1] =
                              (st.name :> Namespace(c.path_to_namespace_id[st.name])) @@ @],
                     globals |-> g]
               ELSE [c |-> compile_error(c, Message("AlreadyExists", st.name)),
                     globals |-> g]
          [] st.kind = "Definition" ->
               IF st.name \notin DOMAIN namespace
               THEN [c |-> [c EXCEPT !.namespaces[slot + 1] =
                              (st.name :> Slot(definition_slot(g))) @@ @],
                     globals |-> g + 1]
               ELSE [c |-> compile_error(c, Message("AlreadyExists", st.name)),
                     globals |-> g]
          [] OTHER -> same

RECURSIVE ScanFrom(_, _)
\* the first statement of module m or a later one, in the order of the scan;
\* << Len(t) + 1, 1 >> when there is none
ScanFrom(t, m) ==
    IF m > Len(t) THEN << m, 1 >>
    ELSE IF Len(t[m].statements) > 0 THEN << m, 1 >>
    ELSE ScanFrom(t, m + 1)

\* the statement the scan visits after statement s of module m
ScanAfter(t, m, s) ==
    IF s < Len(t[m].statements) THEN << m, s + 1 >> ELSE ScanFrom(t, m + 1)

-----------------------------------------------------------------------------
(***************************************************************************)
(* The programs handed to compile.                                         *)
(***************************************************************************)
Module(path, statements) == [path |-> path, statements |-> statements]

\* the module lists: one module; an entry module and a library; two files of
\* the same stem in different directories
PathLists ==
    { << Path("game", "main") >>,
      << Path("game", "main"), Path("game", "lib") >>,
      << Path("game", "main"), Path("vendor", "main") >> }

StatementInputs ==
    { SUse("lib"),
      SDefinition("a", EInt(1)),
      SDefinition("b", EGet(ARead("a"))),
      SDefinition("lib", ENil),
      SAssignment(ARead("a"), EGet(ARead("b"))),
      SAssignment(ARead("lib"), EInt(1)),
      SAssignment(ACall(ARead("a"), << >>), ENil),
      SPrint(EGet(ARead("lib"))),
      SRet(ENil),
      SEmpty }

Slice(xs, from, to) == [ i \in 1..(to - from + 1) |-> xs[from + i - 1] ]

SeqsUpTo(S, n) == UNION { [1..k -> S] : k \in 0..n }

\* the statements `all`, the first k of them in the first module and the
\* others in the last one
TreeOf(paths, all, k) ==
    [ m \in 1..Len(paths) |->
        Module(paths[m],
               IF m = 1 THEN Slice(all, 1, k)
               ELSE IF m = Len(paths) THEN Slice(all, k + 1, Len(all))
               ELSE << >>) ]

\* every `use` names a module of the program: the modules of a Prog are
\* the files its `use` statements were resolved to
UsesResolved(paths, all) ==
    \A i \in 1..Len(all) :
       all[i].kind = "Use" =>
          \E m \in 1..Len(paths) : file_stem(paths[m]) = all[i].name

\* is `t` one of the programs of the model?
IsTree(t) ==
    \/ t = << >>
    \/ \E paths \in PathLists, all \in SeqsUpTo(StatementInputs, MaxStmts) :
         \E k \in 0..Len(all) :
            /\ UsesResolved(paths, all)
            /\ Len(paths) = 1 => k = Len(all)
            /\ t = TreeOf(paths, all, k)

\* the literal values Compiler::expression pushes (syncomp.rs:210-214)
LiteralValues ==
    { VNil, VBool(FALSE), VBool(TRUE), VInt(0), VInt(1), VString(""), VString("a") }
    \cup { VFloat(b) : b \in FloatBits }

-----------------------------------------------------------------------------
(***************************************************************************)
(* Compiler::new() and the steps of Compiler::compile.                     *)
(***************************************************************************)
\* Compiler::new()
New ==
    /\ blocks = << >>
    /\ path_to_namespace_id = << >>
    /\ namespaces = << >>
    /\ panic = FALSE
    /\ errors = << >>
    /\ constants = << >>
    /\ values = << >>
    /\ crashed = FALSE
    /\ attempts = << >>
    /\ calls = << >>

\* the compiler's fields become those of c
Becomes(c) ==
    /\ blocks' = c.blocks
    /\ path_to_namespace_id' = c.path_to_namespace_id
    /\ namespaces' = c.namespaces
    /\ panic' = c.panic
    /\ errors' = c.errors
    /\ constants' = c.constants
    /\ values' = c.values
    /\ crashed' = c.crashed
    /\ attempts' = c.attempts
    /\ calls' = c.calls

NoParser == tokens = << >> /\ parsed = << >>

NoLibrary ==
    /\ input = << >>
    /\ world = << >>
    /\ ret = "none"
    /\ game = << >>
    /\ log = << >>
    /\ runs = 0

Init ==
    /\ IsTree(tree)
    /\ pc = "start"
    /\ mi = 1
    /\ si = 1
    /\ globals = 0
    /\ New
    /\ h2collide = FALSE
    /\ result = "none"
    /\ NoParser
    /\ NoLibrary

\* compile, lines 314-315
Start ==
    /\ pc = "start"
    /\ IF tree = << >>
       THEN /\ Becomes([Self EXCEPT !.crashed = TRUE])
            /\ pc' = "crashed"
       ELSE /\ Becomes([Self EXCEPT !.blocks = Append(@, Block("/preamble/", tree[1].path))])
            /\ pc' = "register"
    /\ UNCHANGED << tree, mi, si, globals, h2collide, result, parserVars, libraryVars >>

\* extract_globals, lines 344-357: one module
RegisterModule ==
    /\ pc = "register"
    /\ Becomes(register_module(Self, tree[mi].path))
    /\ IF mi < Len(tree)
       THEN mi' = mi + 1 /\ UNCHANGED << si, pc >>
       ELSE LET first == ScanFrom(tree, 1)
            IN  /\ mi' = first[1]
                /\ si' = first[2]
                /\ pc' = IF first[1] > Len(tree) THEN "init_globals" ELSE "scan"
    /\ UNCHANGED << tree, globals, h2collide, result, parserVars, libraryVars >>

\* extract_globals, lines 360-409: one statement
ScanStatement ==
    /\ pc = "scan"
    /\ LET r == scan_statement(Self, globals, tree[mi].path, tree[mi].statements[si])
           nxt == ScanAfter(tree, mi, si)
       IN  /\ Becomes(r.c)
           /\ globals' = r.globals
           /\ IF r.c.crashed
              THEN pc' = "crashed" /\ UNCHANGED << mi, si >>
              ELSE /\ mi' = nxt[1]
                   /\ si' = nxt[2]
                   /\ pc' = IF nxt[1] > Len(tree) THEN "init_globals" ELSE "scan"
    /\ UNCHANGED << tree, h2collide, result, parserVars, libraryVars >>

\* `for _ in 1..globals`: one push fewer
NilOps_one_fewer(c, n) == [ i \in 1..(n - 1) |-> OpN("Constant", constant_slot(c, VNil)) ]

\* the opcode Compiler::constant returns for Nil, `n` times
NilOps(c, n) == [ i \in 1..n |-> OpN("Constant", constant_slot(c, VNil)) ]

\* compile, lines 318-321
init_globals(c, g) == add_ops(constant(c, VNil), NilOps(c, g), 1)

InitGlobals ==
    /\ pc = "init_globals"
    /\ Becomes(init_globals(Self, globals))
    /\ si' = 1
    /\ pc' = IF Len(tree[1].statements) > 0 THEN "module" ELSE "finish"
    /\ UNCHANGED << tree, mi, globals, h2collide, result, parserVars, libraryVars >>

\* Compiler::module, lines 308-310: one statement of the entry module
CompileStatement ==
    /\ pc = "module"
    /\ LET c == statement(Self, tree[1].statements[si])
       IN  /\ Becomes(c)
           /\ IF c.crashed
              THEN pc' = "crashed" /\ UNCHANGED si
              ELSE /\ si' = si + 1
                   /\ pc' = IF si < Len(tree[1].statements) THEN "module" ELSE "finish"
    /\ UNCHANGED << tree, mi, globals, h2collide, result, parserVars, libraryVars >>

\* compile, lines 326-328
finish(c) ==
    add_op(add_op(constant(c, VNil), OpN("Constant", constant_slot(c, VNil))),
           Op("Return"))

\* compile, lines 330-339: Ok(prog) or Err(errors)
compile_result(c) == IF c.errors = << >> THEN "Ok" ELSE "Err"

Finish ==
    /\ pc = "finish"
    /\ Becomes(finish(Self))
    /\ result' = compile_result(finish(Self))
    /\ pc' = "done"
    /\ UNCHANGED << tree, mi, si, globals, h2collide, parserVars, libraryVars >>

Next ==
    \/ Start
    \/ RegisterModule
    \/ ScanStatement
    \/ InitGlobals
    \/ CompileStatement
    \/ Finish

Spec == Init /\ [][Next]_vars

-----------------------------------------------------------------------------
(***************************************************************************)
(* The constant pool alone: any sequence of calls of Compiler::constant    *)
(* on a new compiler.                                                      *)
(***************************************************************************)
\* the values handed to Compiler::constant: the literals, tuples, and a
\* list and a dict that hold a float where no HashSet or HashMap hashed it
PoolValues ==
    LiteralValues
    \cup { VTuple(<< VFloat(0) >>), VTuple(<< VFloat(32752) >>),
           VTuple(<< VInt(1), VTuple(<< VFloat(32760) >>) >>),
           VList(<< VFloat(16368) >>), VList(<< VFloat(32752) >>),
           VDict({ << VInt(1), VFloat(32752) >> }) }

InitPool ==
    /\ tree = << >>
    /\ pc = "pool"
    /\ mi = 1
    /\ si = 1
    /\ globals = 0
    /\ New
    /\ h2collide \in BOOLEAN
    /\ result = "none"
    /\ NoParser
    /\ NoLibrary

CallConstant ==
    /\ pc = "pool"
    /\ ~crashed
    /\ Len(calls) < MaxCalls
    /\ \E value \in PoolValues :
         /\ input' = value
         /\ Becomes(constant(Self, value))
    /\ UNCHANGED << tree, pc, mi, si, globals, h2collide, result, parserVars,
                    world, ret, game, log, runs >>

NextPool == CallConstant

SpecPool == InitPool /\ [][NextPool]_vars

-----------------------------------------------------------------------------
(***************************************************************************)
(* The token streams handed to expression(), each with the expression it   *)
(* is written to mean.                                                     *)
(***************************************************************************)
Sample(toks, ast) == [toks |-> toks, ast |-> ast]

RECURSIVE Asts(_)
\* the expressions of a list of samples
Asts(samples) ==
    IF samples = << >> THEN << >>
    ELSE << Head(samples).ast >> \o Asts(Tail(samples))

RECURSIVE Joined(_, _, _)
\* the tokens of the samples, with `sep` between two of them and `last`
\* after the last one
Joined(samples, sep, last) ==
    IF samples = << >> THEN << >>
    ELSE IF Len(samples) = 1 THEN Head(samples).toks \o last
    ELSE Head(samples).toks \o sep \o Joined(Tail(samples), sep, last)

\* what may stand between `(` and `)`
GroupAlphabet ==
    { TInt(1), TInt(2), TIdentifier("a"), T("Comma"), T("LeftParen"),
      T("RightParen"), T("Plus") }

GroupForm(inner) == << T("LeftParen") >> \o inner \o << T("RightParen") >>

GroupForms == { GroupForm(inner) : inner \in SeqsUpTo(GroupAlphabet, MaxInner) }

\* single expressions over GroupAlphabet
GroupedSamples ==
    { Sample(<< TInt(1) >>, EInt(1)),
      Sample(<< TInt(2) >>, EInt(2)),
      Sample(<< TIdentifier("a") >>, EGet(ARead("a"))),
      Sample(<< TInt(1), T("Plus"), TInt(2) >>, EBin("Add", EInt(1), EInt(2))),
      Sample(<< TIdentifier("a"), T("Plus"), TInt(1) >>,
             EBin("Add", EGet(ARead("a")), EInt(1))),
      Sample(<< T("LeftParen"), TInt(2), T("RightParen") >>, EInt(2)),
      Sample(<< T("LeftParen"), TIdentifier("a"), T("RightParen") >>, EGet(ARead("a"))),
      Sample(<< T("LeftParen"), T("RightParen") >>, EColl("Tuple", << >>)),
      Sample(<< T("LeftParen"), TInt(1), T("Comma"), T("RightParen") >>,
             EColl("Tuple", << EInt(1) >>)) }

\* the entries of a brace literal: a bare value, or a key: value pair
BraceValues ==
    { Sample(<< TInt(1) >>, EInt(1)),
      Sample(<< TIdentifier("a") >>, EGet(ARead("a"))) }

Bare(v) == [pair |-> FALSE, toks |-> v.toks, ast |-> << v.ast >>]
Pair(k, v) ==
    [pair |-> TRUE, toks |-> k.toks \o << T("Colon") >> \o v.toks,
     ast |-> << k.ast, v.ast >>]

BraceEntries ==
    { Bare(v) : v \in BraceValues }
    \cup { Pair(k, v) : k \in BraceValues, v \in { Sample(<< TInt(2) >>, EInt(2)) } }

\* `{ e1, e2 }`, with or without commas and a trailing comma
BraceForm(entries, comma, trailing) ==
    << T("LeftBrace") >>
    \o Joined(entries, IF comma THEN << T("Comma") >> ELSE << >>,
              IF trailing THEN << T("Comma") >> ELSE << >>)
    \o << T("RightBrace") >>

EntryLists == SeqsUpTo(BraceEntries, MaxEntries)

BraceForms ==
    { BraceForm(entries, comma, trailing) :
        entries \in EntryLists, comma \in BOOLEAN, trailing \in BOOLEAN }
    \cup { << T("LeftBrace"), T("Colon"), T("RightBrace") >> }

\* `a -> f(b1, .., bn)` and `f(a, b1, .., bn)`
ArrowOperands ==
    { Sample(<< TIdentifier("x") >>, EGet(ARead("x"))),
      Sample(<< TInt(1) >>, EInt(1)),
      Sample(<< T("LeftParen"), TInt(1), T("Comma"), T("RightParen") >>,
             EColl("Tuple", << EInt(1) >>)),
      Sample(<< TIdentifier("g"), T("LeftParen"), T("RightParen") >>,
             EGet(ACall(ARead("g"), << >>))) }

ArrowArguments ==
    { Sample(<< TInt(2) >>, EInt(2)),
      Sample(<< TIdentifier("y") >>, EGet(ARead("y"))) }

ArgumentLists == SeqsUpTo(ArrowArguments, MaxArgs)

CallForm(args) ==
    << TIdentifier("f"), T("LeftParen") >>
    \o Joined(args, << T("Comma") >>, << >>)
    \o << T("RightParen") >>

ArrowForm(a, args) == a.toks \o << T("Arrow") >> \o CallForm(args)

DirectForm(a, args) == CallForm(<< a >> \o args)

ArrowForms ==
    { ArrowForm(a, args) : a \in ArrowOperands, args \in ArgumentLists }
    \cup { DirectForm(a, args) : a \in ArrowOperands, args \in ArgumentLists }

\* `a -> r` where r is no call
ArrowNonCalls ==
    { Sample(<< TInt(5) >>, EInt(5)),
      Sample(<< TIdentifier("y") >>, EGet(ARead("y"))),
      Sample(<< T("LeftBracket"), TInt(1), T("RightBracket") >>,
             EColl("List", << EInt(1) >>)) }

NonCallForm(a, r) == a.toks \o << T("Arrow") >> \o r.toks

NonCallForms == { NonCallForm(a, r) : a \in ArrowOperands, r \in ArrowNonCalls }

\* one or two binary operators between the literals 1, 2 and 3.  `in` is of
\* the highest class, which has no next-higher one, and is left out.
OperatorTokens == InfixTokens \ { "In" }

OperatorForm(o1, o2) == << TInt(1), T(o1), TInt(2), T(o2), TInt(3) >>

OperatorForms ==
    { OperatorForm(o1, o2) : o1 \in OperatorTokens, o2 \in OperatorTokens }
    \cup { << TInt(1), T(o) , TInt(2) >> : o \in OperatorTokens }

\* an assignable and what follows it: a blob initializer, well-formed or
\* not, or nothing.  `blob` says whether the whole is a blob instantiation
\* and `fields` which fields it has.
BlobNames ==
    { Sample(<< TIdentifier("x") >>, ARead("x")),
      Sample(<< TIdentifier("x"), T("Dot"), TIdentifier("y") >>,
             AAccess(ARead("x"), ARead("y"))),
      Sample(<< TIdentifier("f"), T("LeftParen"), T("RightParen") >>,
             ACall(ARead("f"), << >>)) }

Initializer(toks, isblob, fields) == [toks |-> toks, blob |-> isblob, fields |-> fields]

BlobField(name, v) == << TIdentifier(name), T("Colon") >> \o v.toks

BlobValues ==
    { Sample(<< TInt(1) >>, EInt(1)),
      Sample(<< TIdentifier("y") >>, EGet(ARead("y"))) }

BlobInitializers ==
    { Initializer(<< >>, FALSE, << >>),
      Initializer(<< T("LeftBrace"), T("RightBrace") >>, TRUE, << >>),
      Initializer(<< T("LeftBrace"), T("RightBrace"), T("Else") >>, FALSE, << >>),
      Initializer(<< T("LeftBrace") >>, FALSE, << >>),
      Initializer(<< T("LeftBrace"), TInt(1), T("RightBrace") >>, FALSE, << >>),
      Initializer(<< T("LeftBrace"), TIdentifier("a"), TInt(1), T("RightBrace") >>,
                  FALSE, << >>) }
    \cup UNION { { Initializer(<< T("LeftBrace") >> \o BlobField("a", v) \o << T("RightBrace") >>,
                               TRUE, << << "a", v.ast >> >>),
                   Initializer(<< T("LeftBrace") >> \o BlobField("a", v) \o << T("Comma"), T("RightBrace") >>,
                               TRUE, << << "a", v.ast >> >>),
                   Initializer(<< T("LeftBrace") >> \o BlobField("a", v)
                                 \o << T("RightBrace"), T("Else") >>,
                               FALSE, << >>),
                   Initializer(<< T("LeftBrace") >> \o BlobField("a", v), FALSE, << >>),
                   Initializer(<< T("LeftBrace") >> \o BlobField("a", v)
                                 \o << TIdentifier("b"), T("RightBrace") >>,
                               FALSE, << >>) }
                 : v \in BlobValues }
    \cup { Initializer(<< T("LeftBrace") >> \o BlobField("a", v) \o << T("Comma") >>
                         \o BlobField("b", w) \o << T("RightBrace") >> \o tail,
                       tail = << >>, << << "a", v.ast >>, << "b", w.ast >> >>)
           : v \in BlobValues, w \in BlobValues, tail \in { << >>, << T("Else") >> } }

BlobForm(name, init) == name.toks \o init.toks

BlobForms == { BlobForm(name, init) : name \in BlobNames, init \in BlobInitializers }

\* brace literals that begin with a free-standing colon or hold a brace
\* literal
BraceSamples ==
    { Sample(<< T("LeftBrace"), T("Colon"), TInt(1), T("Colon"), TInt(2), T("RightBrace") >>,
             EColl("Dict", << EInt(1), EInt(2) >>)),
      Sample(<< T("LeftBrace"), T("LeftBrace"), TInt(1), T("Colon"), TInt(2),
                T("RightBrace"), T("RightBrace") >>,
             EColl("Set", << EColl("Dict", << EInt(1), EInt(2) >>) >>)),
      Sample(<< T("LeftBrace"), T("LeftBrace"), TInt(1), T("RightBrace"), T("Colon"),
                TInt(2), T("RightBrace") >>,
             EColl("Dict", << EColl("Set", << EInt(1) >>), EInt(2) >>)),
      Sample(<< T("LeftBrace"), TInt(1), T("Colon"), T("LeftBrace"), T("Colon"),
                T("RightBrace"), T("Comma"), TInt(2), T("Colon"), TInt(3), T("RightBrace") >>,
             EColl("Dict", << EInt(1), EColl("Dict", << >>), EInt(2), EInt(3) >>)) }

\* function expressions: the streams function() stops on before, at and
\* after its calls of parse_type and block_statement
FunctionForms ==
    { << T("Fn"), T("RightParen") >>,
      << T("LeftParen"), T("Fn"), T("RightParen") >>,
      << T("Fn"), TIdentifier("a"), T("RightParen") >>,
      << T("Fn"), T("LeftBrace"), T("RightBrace") >>,
      << T("Fn"), T("Arrow"), T("LeftBrace"), T("RightBrace") >>,
      << T("Fn"), TIdentifier("a"), T("Colon"), TIdentifier("int"), T("Arrow"),
         T("LeftBrace"), T("RightBrace") >> }

IsTokenInput(toks) ==
    \/ \E form \in FunctionForms : toks = form
    \/ \E form \in BraceSamples : toks = form.toks
    \/ \E form \in BlobForms : toks = form
    \/ \E form \in GroupForms : toks = form
    \/ \E form \in BraceForms : toks = form
    \/ \E form \in ArrowForms : toks = form
    \/ \E form \in NonCallForms : toks = form
    \/ \E form \in OperatorForms : toks = form

\* the program around a parsed expression: the definitions of two of its
\* names, then the expression as a statement
ProgramOf(expr) ==
    << Module(Path("game", "main"),
              << SDefinition("f", ENil), SDefinition("x", EInt(1)),
                 SStatementExpression(expr) >>) >>

-----------------------------------------------------------------------------
(***************************************************************************)
(* expression() on a token stream, and compile on what it parsed.          *)
(***************************************************************************)
InitParse ==
    /\ IsTokenInput(tokens)
    /\ parsed = << >>
    /\ tree = << >>
    /\ pc = "parse"
    /\ mi = 1
    /\ si = 1
    /\ globals = 0
    /\ New
    /\ h2collide = FALSE
    /\ result = "none"
    /\ NoLibrary

\* expression(ctx) at the first token
Parse ==
    /\ pc = "parse"
    /\ parsed' = parse_expression(tokens, 1)
    /\ IF parsed'.ok
       THEN tree' = ProgramOf(parsed'.expr) /\ pc' = "start"
       ELSE tree' = tree /\ pc' = IF parsed'.panicked THEN "crashed" ELSE "syntax_error"
    /\ UNCHANGED << tokens, mi, si, globals, h2collide, result, blocks,
                    path_to_namespace_id, namespaces, panic, errors, constants,
                    values, crashed, attempts, calls, libraryVars >>

NextParse ==
    \/ Parse
    \/ Next

SpecParse == InitParse /\ [][NextParse]_vars

-----------------------------------------------------------------------------
(***************************************************************************)
(* Value::eq, Value::hash and Value::from(&Type) called on their own.      *)
(***************************************************************************)
\* enum Type, by the arms of From<&Type> for Value
Ty0(tag) == [tag |-> tag]
TyN(tag, n) == [tag |-> tag, n |-> n]
TyField(s) == [tag |-> "Field", s |-> s]
Ty1(tag, of) == [tag |-> tag, of |-> of]
TyDict(k, v) == [tag |-> "Dict", key |-> k, value |-> v]
TyTuple(fields) == [tag |-> "Tuple", fields |-> fields]
\* the members of a union in the order .iter() gives them
TyUnion(members) == [tag |-> "Union", members |-> members]
TyFunction(params, r) == [tag |-> "Function", params |-> params, ret |-> r]

\* HashSet::insert
HashSetInsert(hs, v) ==
    IF \E x \in hs : Found(x, v) THEN hs ELSE hs \cup { v }

\* the arms of From<&Type> that build no other value, with 0 for Type::Int
from_scalar_zero(ty) ==
    CASE ty.tag = "Field" -> VOf("Field", ty.s)
      [] ty.tag = "Void" -> VNil
      [] ty.tag = "Blob" -> VOf("Blob", ty.n)
      [] ty.tag = "Instance" -> VOf("Instance", ty.n)
      [] ty.tag = "Iter" -> VOf("Iter", ty.of)
      [] ty.tag \in { "Unknown", "Invalid" } -> VUnknown
      [] ty.tag = "Int" -> VInt(0)
      [] ty.tag = "Float" -> VFloat(16368)
      [] ty.tag = "Bool" -> VBool(TRUE)
      [] ty.tag = "String" -> VString("")
      [] ty.tag = "Function" -> VOf("Function", ty)
      [] ty.tag = "ExternFunction" -> VOf("ExternFunction", ty.n)
      [] ty.tag = "Ty" -> VOf("Ty", Ty0("Void"))

\* the arms of From<&Type> that build no other value
from_scalar(ty) ==
    CASE ty.tag = "Field" -> VOf("Field", ty.s)
      [] ty.tag = "Void" -> VNil
      [] ty.tag = "Blob" -> VOf("Blob", ty.n)
      [] ty.tag = "Instance" -> VOf("Instance", ty.n)
      [] ty.tag = "Iter" -> VOf("Iter", ty.of)
      [] ty.tag \in { "Unknown", "Invalid" } -> VUnknown
      [] ty.tag = "Int" -> VInt(1)
      [] ty.tag = "Float" -> VFloat(16368)
      [] ty.tag = "Bool" -> VBool(TRUE)
      [] ty.tag = "String" -> VString("")
      [] ty.tag = "Function" -> VOf("Function", ty)
      [] ty.tag = "ExternFunction" -> VOf("ExternFunction", ty.n)
      [] ty.tag = "Ty" -> VOf("Ty", Ty0("Void"))

RECURSIVE from(_)
RECURSIVE from_collect(_)

\* v.iter().map(Value::from).collect() into a HashSet
from_collect(members) ==
    IF members = << >> THEN { }
    ELSE HashSetInsert(from_collect(SubSeq(members, 1, Len(members) - 1)),
                       from(members[Len(members)]))

\* From<&Type> for Value
from(ty) ==
    CASE ty.tag = "Tuple" -> VTuple([ i \in 1..Len(ty.fields) |-> from(ty.fields[i]) ])
      [] ty.tag = "Union" -> VUnion(from_collect(ty.members))
      [] ty.tag = "List" -> VList(<< from(ty.of) >>)
      [] ty.tag = "Set" -> VSet(HashSetInsert({ }, from(ty.of)))
      [] ty.tag = "Dict" -> VDict({ << from(ty.key), from(ty.value) >> })
      [] OTHER -> from_scalar(ty)

\* does From<&Type> hash a value that trips the assertion of Value::hash?
RECURSIVE from_panics(_)
from_panics(ty) ==
    CASE ty.tag = "Tuple" -> \E i \in 1..Len(ty.fields) : from_panics(ty.fields[i])
      [] ty.tag = "Union" ->
            \E i \in 1..Len(ty.members) :
                from_panics(ty.members[i]) \/ HashPanics(from(ty.members[i]))
      [] ty.tag \in { "List" } -> from_panics(ty.of)
      [] ty.tag = "Set" -> from_panics(ty.of) \/ HashPanics(from(ty.of))
      [] ty.tag = "Dict" ->
            from_panics(ty.key) \/ from_panics(ty.value) \/ HashPanics(from(ty.key))
      [] OTHER -> FALSE

\* the types From<&Type> is called with
CoreTypes ==
    { Ty0(t) : t \in { "Int", "Float", "Bool", "String", "Void", "Unknown", "Invalid" } }

BaseTypes ==
    CoreTypes
    \cup { Ty0("Ty"), TyN("Blob", 0), TyN("Instance", 0), TyN("ExternFunction", 2),
           TyField("f"), Ty1("Iter", Ty0("Int")),
           TyFunction(<< Ty0("Int") >>, Ty0("Void")) }

CompoundTypes(of) ==
    { Ty1(t, a) : t \in { "List", "Set" }, a \in of }
    \cup { TyDict(k, v) : k \in of, v \in of }
    \cup { TyTuple(<< >>) }
    \cup { TyTuple(<< a >>) : a \in of }
    \cup { TyTuple(<< a, b >>) : a \in of, b \in of }

NestedTypes ==
    { Ty1("List", Ty0("Int")), Ty1("Set", Ty0("Float")),
      TyDict(Ty0("String"), Ty0("Int")), TyTuple(<< Ty0("Int"), Ty0("Bool") >>),
      TyTuple(<< >>) }

UnionTypes ==
    { TyUnion(<< >>), TyUnion(<< Ty0("Int") >>), TyUnion(<< Ty0("Int"), Ty0("Void") >>),
      TyUnion(<< Ty0("Bool"), Ty0("Float"), Ty0("String") >>) }

TypeInputs ==
    BaseTypes
    \cup { Ty1(t, a) : t \in { "List", "Set" }, a \in BaseTypes }
    \cup CompoundTypes(CoreTypes)
    \cup CompoundTypes(NestedTypes)
    \cup UnionTypes

ScalarInputs ==
    { VNil, VBool(FALSE), VBool(TRUE), VInt(0), VInt(1), VString(""), VString("a") }
    \cup { VFloat(b) : b \in FloatBits }

TupleInputs ==
    { VTuple(<< >>), VTuple(<< VInt(1) >>), VTuple(<< VInt(1), VString("a") >>),
      VTuple(<< VFloat(0) >>), VTuple(<< VFloat(32768) >>),
      VTuple(<< VFloat(32752) >>), VTuple(<< VTuple(<< VFloat(32760) >>) >>) }

UnionInputs ==
    { VUnion({ }), VUnion({ VInt(1) }), VUnion({ VInt(1), VString("a") }),
      VUnion({ VFloat(0), VNil }), VUnion({ VTuple(<< VInt(1) >>) }),
      VUnion({ VUnion({ VInt(1) }), VBool(TRUE) }) }

ValueInputs ==
    ScalarInputs \cup TupleInputs \cup UnionInputs
    \cup { VList(<< VInt(1) >>), VUnknown }

\* what Value::hash does on v: the assertion trips, or the data is written
Hashed(v) ==
    IF HashPanics(v) THEN [panicked |-> TRUE, data |-> << >>]
    ELSE [panicked |-> FALSE, data |-> HashData(v)]

InitValue ==
    /\ \/ \E fn \in { "eq", "hash" }, a \in ValueInputs, b \in ValueInputs :
            input = [fn |-> fn, self |-> a, other |-> b]
       \/ \E ty \in TypeInputs :
            input = [fn |-> "from", ty |-> ty]
    /\ pc = "call"
    /\ world = << >>
    /\ ret = "none"
    /\ game = << >>
    /\ log = << >>
    /\ runs = 0
    /\ crashed = FALSE
    /\ tree = << >>
    /\ mi = 1
    /\ si = 1
    /\ globals = 0
    /\ blocks = << >>
    /\ path_to_namespace_id = << >>
    /\ namespaces = << >>
    /\ panic = FALSE
    /\ errors = << >>
    /\ constants = << >>
    /\ values = << >>
    /\ attempts = << >>
    /\ calls = << >>
    /\ h2collide = FALSE
    /\ result = "none"
    /\ NoParser

\* self == other
Eq ==
    /\ pc = "call"
    /\ input.fn = "eq"
    /\ ret' = ValueEq(input.self, input.other)
    /\ pc' = "returned"
    /\ UNCHANGED << input, world, game, log, runs, crashed, compileVars >>

\* self.hash(state), then other.hash(state) with a hasher of its own
Hash ==
    /\ pc = "call"
    /\ input.fn = "hash"
    /\ IF HashPanics(input.self) \/ HashPanics(input.other)
       THEN crashed' = TRUE /\ pc' = "crashed" /\ ret' = ret
       ELSE /\ ret' = << HashData(input.self), HashData(input.other) >>
            /\ pc' = "returned"
            /\ crashed' = crashed
    /\ UNCHANGED << input, world, game, log, runs, compileVars >>

\* Value::from(&ty)
From ==
    /\ pc = "call"
    /\ input.fn = "from"
    /\ IF from_panics(input.ty)
       THEN crashed' = TRUE /\ pc' = "crashed" /\ ret' = ret
       ELSE crashed' = crashed /\ pc' = "returned" /\ ret' = from(input.ty)
    /\ UNCHANGED << input, world, game, log, runs, compileVars >>

NextValue ==
    \/ Eq
    \/ Hash
    \/ From

SpecValue == InitValue /\ [][NextValue]_vars

-----------------------------------------------------------------------------
(***************************************************************************)
(* The extern functions l_load_image and l_load_audio (lingon_sylt.rs).    *)
(* lingon's Game is the list of the images and sounds its asset store has  *)
(* loaded and the sprite sheets of its renderer.                           *)
(***************************************************************************)
NewGame == [images |-> << >>, audio |-> << >>, sheets |-> << >>]

\* Type::from(&Value), as far as the variant
TypeOf(v) == v.tag

ExternTypeMismatch(name, vals) ==
    [ok |-> FALSE,
     error |-> [kind |-> "ExternTypeMismatch", name |-> name,
                types |-> [ i \in 1..Len(vals) |-> TypeOf(vals[i]) ]]]

ExternOk(v) == [ok |-> TRUE, value |-> v]

\* a call of an extern function: the game after it, what it returned, and
\* whether it panicked on the way
ExternReturn(g, r) == [game |-> g, ret |-> r, panicked |-> FALSE]
ExternPanic(g) == [game |-> g, ret |-> "none", panicked |-> TRUE]

\* unpack_int_int_tuple: does it reach unreachable!()?
unpack_int_int_tuple_panics(v) ==
    ~ ( /\ v.tag = "Tuple"
        /\ Len(v.xs) >= 2
        /\ v.xs[1].tag = "Int"
        /\ v.xs[2].tag = "Int" )

\* the arm `([Value::String(path), tilesize], false)` whatever typecheck is
image_arm_untyped(vals, typecheck) ==
    IF Len(vals) = 2 /\ vals[1].tag = "String" THEN "load" ELSE "mismatch"

\* l_load_image, lines 354-370: the arm of the match
image_arm(vals, typecheck) ==
    IF Len(vals) = 2 /\ vals[1].tag = "String"
    THEN IF typecheck THEN "typecheck" ELSE "load"
    ELSE "mismatch"

\* l_load_image
l_load_image(g, vals, typecheck) ==
    CASE image_arm(vals, typecheck) = "load" ->
            IF unpack_int_int_tuple_panics(vals[2])
            THEN ExternPanic([g EXCEPT !.images = Append(@, vals[1].s)])
            ELSE ExternReturn(
                   [g EXCEPT !.images = Append(@, vals[1].s),
                             !.sheets = Append(@, [image |-> vals[1].s,
                                                   dim |-> << vals[2].xs[1].n,
                                                              vals[2].xs[2].n >>])],
                   ExternOk(VTuple(<< VString("image"), VInt(Len(g.sheets)) >>)))
      [] image_arm(vals, typecheck) = "typecheck" ->
            IF unpack_int_int_tuple_panics(vals[2])
            THEN ExternPanic(g)
            ELSE ExternReturn(g, ExternOk(VTuple(<< VString("image"), VInt(0) >>)))
      [] OTHER -> ExternReturn(g, ExternTypeMismatch("l_load_image", vals))

\* l_load_audio, lines 379-389: the arm of the match
audio_arm(vals, typecheck) ==
    IF Len(vals) = 1 /\ vals[1].tag = "String"
    THEN IF typecheck THEN "typecheck" ELSE "load"
    ELSE "mismatch"

\* l_load_audio
l_load_audio(g, vals, typecheck) ==
    CASE audio_arm(vals, typecheck) = "load" ->
            ExternReturn([g EXCEPT !.audio = Append(@, vals[1].s)],
                         ExternOk(VTuple(<< VString("audio"), VInt(Len(g.audio)) >>)))
      [] audio_arm(vals, typecheck) = "typecheck" ->
            ExternReturn(g, ExternOk(VTuple(<< VString("audio"), VInt(0) >>)))
      [] OTHER -> ExternReturn(g, ExternTypeMismatch("l_load_image", vals))

\* the argument lists of the calls
ExternArguments ==
    { << >>,
      << VString("a") >>,
      << VInt(1) >>,
      << VNil >>,
      << VString("a"), VString("b") >>,
      << VString("a"), VTuple(<< VInt(16), VInt(8) >>) >>,
      << VString("b"), VTuple(<< VInt(16), VInt(8) >>) >>,
      << VString("a"), VTuple(<< VInt(16) >>) >>,
      << VString("a"), VTuple(<< VFloat(16368), VInt(8) >>) >>,
      << VString("a"), VInt(16) >>,
      << VInt(1), VTuple(<< VInt(16), VInt(8) >>) >>,
      << VString("a"), VTuple(<< VInt(16), VInt(8) >>), VInt(1) >> }

InitExtern ==
    /\ pc = "extern"
    /\ input = << >>
    /\ world = << >>
    /\ ret = "none"
    /\ game = NewGame
    /\ log = << >>
    /\ runs = 0
    /\ crashed = FALSE
    /\ tree = << >>
    /\ mi = 1
    /\ si = 1
    /\ globals = 0
    /\ blocks = << >>
    /\ path_to_namespace_id = << >>
    /\ namespaces = << >>
    /\ panic = FALSE
    /\ errors = << >>
    /\ constants = << >>
    /\ values = << >>
    /\ attempts = << >>
    /\ calls = << >>
    /\ h2collide = FALSE
    /\ result = "none"
    /\ NoParser

\* the state after the call `done` of the extern function fn
Called(fn, vals, typecheck, done) ==
    /\ input' = [fn |-> fn, values |-> vals, typecheck |-> typecheck]
    /\ log' = Append(log, fn)
    /\ game' = done.game
    /\ ret' = done.ret
    /\ crashed' = done.panicked
    /\ pc' = IF done.panicked THEN "crashed" ELSE "extern"
    /\ UNCHANGED << world, runs, compileVars >>

LoadImage ==
    /\ pc = "extern"
    /\ Len(log) < MaxExternCalls
    /\ \E vals \in ExternArguments, typecheck \in BOOLEAN :
         Called("l_load_image", vals, typecheck, l_load_image(game, vals, typecheck))

LoadAudio ==
    /\ pc = "extern"
    /\ Len(log) < MaxExternCalls
    /\ \E vals \in ExternArguments, typecheck \in BOOLEAN :
         Called("l_load_audio", vals, typecheck, l_load_audio(game, vals, typecheck))

NextExtern ==
    \/ LoadImage
    \/ LoadAudio

SpecExtern == InitExtern /\ [][NextExtern]_vars

-----------------------------------------------------------------------------
(***************************************************************************)
(* run_file and run (sylt-old/src/lib.rs).  The parser, the compiler, the  *)
(* typechecker and the VM are called as a whole: `world` holds what each   *)
(* of them answers for the file at hand.                                   *)
(***************************************************************************)
None == [some |-> FALSE]
File(path) == [some |-> TRUE, path |-> path]

StageOk == [ok |-> TRUE]
StageErr(errs) == [ok |-> FALSE, errors |-> errs]

Args == [ file : { None, File("main.sy") }, verbosity : 0..2 ]

Worlds ==
    [ tree : { StageOk, StageErr(<< "SyntaxError" >>),
               StageErr(<< "SyntaxError", "FileNotFound" >>) },
      compile : { StageOk, StageErr(<< "CompileError" >>) },
      typecheck : { StageOk, StageErr(<< "TypeError" >>),
                    StageErr(<< "TypeError", "TypeError" >>) },
      run : { StageOk, StageErr(<< "RuntimeError" >>) } ]

\* the call of one stage, as the history keeps it
Stage(name) == [stage |-> name]

\* lib.rs compile()
lib_compile(a, w) ==
    IF ~a.file.some THEN StageErr(<< "NoFileGiven" >>)
    ELSE IF ~w.tree.ok THEN w.tree
    ELSE w.compile

\* the VM that run() sets up
VM(a) == [stage |-> "run",
          print_bytecode |-> a.verbosity >= 1,
          print_exec |-> a.verbosity >= 2]

\* `?` that goes on whatever the stage answered
question_mark_ignored(outcome) == TRUE

\* the `?` of run_file: go on only when the stage answered Ok
question_mark(outcome) == outcome.ok

InitRunFile ==
    /\ \E a \in Args, entry \in { "run_file", "run" } :
         /\ input = [entry |-> entry, args |-> a]
         /\ pc = entry
    /\ world \in Worlds
    /\ ret = "none"
    /\ game = << >>
    /\ log = << >>
    /\ runs = 0
    /\ crashed = FALSE
    /\ tree = << >>
    /\ mi = 1
    /\ si = 1
    /\ globals = 0
    /\ blocks = << >>
    /\ path_to_namespace_id = << >>
    /\ namespaces = << >>
    /\ panic = FALSE
    /\ errors = << >>
    /\ constants = << >>
    /\ values = << >>
    /\ attempts = << >>
    /\ calls = << >>
    /\ h2collide = FALSE
    /\ result = "none"
    /\ NoParser

\* one stage of run_file has answered: return its errors or go on
Staged(name, outcome, next) ==
    /\ log' = Append(log, name)
    /\ IF question_mark(outcome)
       THEN /\ pc' = next
            /\ UNCHANGED ret
       ELSE /\ pc' = "done"
            /\ ret' = outcome
    /\ UNCHANGED << input, world, game, runs, crashed, compileVars >>

\* run_file, line 48
RunFileCompile ==
    /\ pc = "run_file"
    /\ Staged(Stage("compile"), lib_compile(input.args, world), "typecheck")

\* run_file, line 49
RunFileTypecheck ==
    /\ pc = "typecheck"
    /\ Staged(Stage("typecheck"), world.typecheck, "run")

\* run(), called by run_file at line 50 or on its own
Run ==
    /\ pc = "run"
    /\ log' = Append(log, VM(input.args))
    /\ ret' = IF world.run.ok THEN StageOk ELSE StageErr(<< world.run.errors[1] >>)
    /\ pc' = "done"
    /\ UNCHANGED << input, world, game, runs, crashed, compileVars >>

NextRunFile ==
    \/ RunFileCompile
    \/ RunFileTypecheck
    \/ Run

SpecRunFile == InitRunFile /\ [][NextRunFile]_vars

-----------------------------------------------------------------------------
(***************************************************************************)
(* The benchmark harness (src/bin/time.rs).  `world` says whether the file *)
(* compiles and which run of the program, if any, ends in a runtime error; *)
(* the clock is free to pass max_time before any iteration.                *)
(***************************************************************************)
Limit(n) == [some |-> TRUE, n |-> n]

TimeArgs ==
    [ help : BOOLEAN,
      max_runs : { None } \cup { Limit(n) : n \in 0..MaxRuns },
      max_time : { None, Limit(1) } ]

TimeWorlds == [ compiles : BOOLEAN, fails_at : 0..(MaxLoopRuns + 1) ]

\* sylt::run, the call number k of this invocation
sylt_run(w, k) == IF w.fails_at = k THEN StageErr(<< "RuntimeError" >>) ELSE StageOk

InitTime ==
    /\ input \in TimeArgs
    /\ world \in TimeWorlds
    /\ pc = "main"
    /\ ret = "none"
    /\ game = << >>
    /\ log = << >>
    /\ runs = 0
    /\ crashed = FALSE
    /\ tree = << >>
    /\ mi = 1
    /\ si = 1
    /\ globals = 0
    /\ blocks = << >>
    /\ path_to_namespace_id = << >>
    /\ namespaces = << >>
    /\ panic = FALSE
    /\ errors = << >>
    /\ constants = << >>
    /\ values = << >>
    /\ attempts = << >>
    /\ calls = << >>
    /\ h2collide = FALSE
    /\ result = "none"
    /\ NoParser

\* main, lines 21-45: the help, and the compile
TimeCompile ==
    /\ pc = "main"
    /\ pc' = IF input.help \/ ~world.compiles THEN "done" ELSE "compiled"
    /\ UNCHANGED << input, world, ret, game, log, runs, crashed, compileVars >>

\* main, lines 47-63: "Running once"
TimeRunOnce ==
    /\ pc = "compiled"
    /\ log' = Append(log, sylt_run(world, Len(log) + 1))
    /\ pc' = IF sylt_run(world, Len(log) + 1).ok THEN "loop" ELSE "done"
    /\ runs' = 0
    /\ ret' = << >>
    /\ UNCHANGED << input, world, game, crashed, compileVars >>

\* main, lines 65-74 and 83-86: one of the two breaks, then the printing
TimeBreak ==
    /\ pc = "loop"
    /\ \/ input.max_runs.some /\ runs >= input.max_runs.n
       \/ input.max_time.some
    /\ pc' = "done"
    /\ UNCHANGED << input, world, ret, game, log, runs, crashed, compileVars >>

\* main, lines 65-80: an iteration that takes neither break
TimeRun ==
    /\ pc = "loop"
    /\ runs < MaxLoopRuns
    /\ ~(input.max_runs.some /\ runs >= input.max_runs.n)
    /\ runs' = runs + 1
    /\ log' = Append(log, sylt_run(world, Len(log) + 1))
    /\ IF sylt_run(world, Len(log) + 1).ok
       THEN /\ ret' = Append(ret, "runtime")
            /\ UNCHANGED << pc, crashed >>
       ELSE /\ crashed' = TRUE
            /\ pc' = "crashed"
            /\ UNCHANGED ret
    /\ UNCHANGED << input, world, game, compileVars >>

NextTime ==
    \/ TimeCompile
    \/ TimeRunOnce
    \/ TimeBreak
    \/ TimeRun

SpecTime == InitTime /\ [][NextTime]_vars

-----------------------------------------------------------------------------
(***************************************************************************)
(* compile on programs of one module: the definition of x, then one        *)
(* statement out of expressions, literals and assignments of every kind.   *)
(***************************************************************************)
CodeOperands ==
    { EInt(1), EStr("s"), ENil, EGet(ARead("x")), EGet(ARead("u")),
      EBin("Add", EInt(1), EInt(2)) }

CodeElements == { EInt(1), EInt(2), EGet(ARead("x")), EColl("List", << EInt(1) >>) }

CodeExpressions ==
    { EBin(kind, a, b) : kind \in BinKinds, a \in CodeOperands, b \in CodeOperands }
    \cup { EUn(kind, a) : kind \in UnKinds, a \in CodeOperands }
    \cup { EColl(kind, xs) : kind \in CollKinds, xs \in SeqsUpTo(CodeElements, MaxElements) }

CodeTargets ==
    { ARead("x"), ARead("u"), AIndex(ARead("x"), EInt(2)),
      AIndex(ARead("x"), EGet(ARead("x"))), ACall(ARead("x"), << >>) }

CodeStatements ==
    { SStatementExpression(e) : e \in CodeExpressions }
    \cup { SAssignment(t, v) : t \in CodeTargets, v \in CodeOperands }
    \cup { SPrint(EUn("Not", EGet(ARead("x")))), SDefinition("y", EUn("Neg", EInt(1))) }

InitCode ==
    /\ \E st \in CodeStatements :
         tree = << Module(Path("game", "main"), << SDefinition("x", EInt(1)), st >>) >>
    /\ pc = "start"
    /\ mi = 1
    /\ si = 1
    /\ globals = 0
    /\ New
    /\ h2collide = FALSE
    /\ result = "none"
    /\ NoParser
    /\ NoLibrary

SpecCode == InitCode /\ [][Next]_vars

-----------------------------------------------------------------------------
(***************************************************************************)
(* Properties of the constant pool.                                        *)
(***************************************************************************)
\* C1: for any sequence of Compiler::constant calls, two calls whose values
\* are equal return the same pool index, a call whose value equals no earlier
\* one returns a fresh index equal to the pool length before it, after every
\* call constants[values[v]] == v for every key v of the interning map, and
\* the pool never holds two equal values.
C1_EqualValuesShareSlot ==
    /\ \A i, j \in 1..Len(calls) :
          ValueEq(calls[i].value, calls[j].value) => calls[i].slot = calls[j].slot
    /\ \A j \in 1..Len(calls) :
          (\A i \in 1..(j - 1) : ~ValueEq(calls[i].value, calls[j].value))
             => calls[j].slot = calls[j].len
    /\ \A v \in DOMAIN values : ValueEq(constants[values[v] + 1], v)
    /\ \A i, j \in 1..Len(constants) :
          i # j => ~ValueEq(constants[i], constants[j])

-----------------------------------------------------------------------------
(***************************************************************************)
(* Properties of Compiler::compile.                                        *)
(***************************************************************************)
\* C2: compile returns Ok(program) exactly when no compile error was reported
\* during the compile, and otherwise returns Err with a non-empty error
\* list; no compile in which an error was reported returns a program.
C2_OkIffNoError ==
    /\ result # "none" <=> pc = "done"
    /\ pc = "done" =>
         /\ result \in { "Ok", "Err" }
         /\ result = "Ok" <=> attempts = << >>
         /\ result = "Err" => errors # << >>

\* a compile that reported an error in extract_globals and returned Err
C2_Witness ==
    /\ pc = "done"
    /\ result = "Err"
    /\ \E i \in 1..Len(attempts) : attempts[i].message.kind = "AlreadyExists"

\* C3: during one compile the panic flag never goes from true back to false,
\* the error list holds at most one entry, that entry is the first error
\* attempted, and every later attempt leaves the error list unchanged.
C3_FirstErrorOnly ==
    [][ /\ panic => panic'
        /\ Len(errors') <= 1
        /\ attempts' # << >> => errors' = << attempts'[1] >>
        /\ attempts # << >> => errors' = errors ]_vars

\* a second, different error was attempted and dropped
C3_Witness ==
    /\ Len(attempts) >= 2
    /\ attempts[2] # attempts[1]
    /\ panic
    /\ errors = << attempts[1] >>

\* the statement the scan of extract_globals is at, and its namespace
ScanStmt == tree[mi].statements[si]
ScanNamespace == namespaces[path_to_namespace_id[file_stem(tree[mi].path)] + 1]

\* C4: in extract_globals a `use` or a definition whose name is already bound
\* in the namespace of its module is reported as a compile error and never
\* as a panic, the existing binding is left unchanged, and the scan goes on
\* to the remaining statements and modules; the same holds when two modules
\* register under the same module name.
C4_DuplicateIsErrorNotPanic ==
    [][ /\ ( /\ pc = "scan"
             /\ ScanStmt.kind \in { "Use", "Definition" }
             /\ ScanStmt.name \in DOMAIN ScanNamespace )
           => /\ ~crashed'
              /\ attempts' = Append(attempts,
                                    [file |-> current_file(Self),
                                     message |-> Message("AlreadyExists", ScanStmt.name)])
              /\ namespaces' = namespaces
              /\ globals' = globals
              /\ << mi', si' >> = ScanAfter(tree, mi, si)
              /\ pc' = IF mi' > Len(tree) THEN "init_globals" ELSE "scan"
        /\ ( /\ pc = "register"
             /\ file_stem(tree[mi].path) \in DOMAIN path_to_namespace_id )
           => /\ ~crashed'
              /\ attempts' = Append(attempts,
                                    [file |-> current_file(Self),
                                     message |-> Message("ModuleTwice",
                                                         display(tree[mi].path))])
              /\ path_to_namespace_id' = path_to_namespace_id
              /\ namespaces' = namespaces
              /\ pc' \in { "register", "scan", "init_globals" } ]_vars

\* a second `use lib` in the entry module was reported, the binding of lib
\* is the one the first `use` made, and the definition of the module after
\* it was scanned
C4_Witness ==
    /\ pc = "done"
    /\ Len(tree) = 2
    /\ tree[1].statements = << SUse("lib"), SUse("lib") >>
    /\ tree[2].statements = << SDefinition("a", EInt(1)) >>
    /\ ~crashed
    /\ Len(attempts) = 1
    /\ attempts[1].message = Message("AlreadyExists", "lib")
    /\ namespaces[1]["lib"] = Namespace(1)
    /\ "a" \in DOMAIN namespaces[2]

\* the names bound to a global slot, with their namespace
SlotBindings ==
    { << i, name >> \in (1..Len(namespaces)) \X { "a", "b", "lib", "main" } :
        name \in DOMAIN namespaces[i] /\ namespaces[i][name].kind = "Slot" }

\* C5: the global slots given to definitions are pairwise distinct across
\* all modules and are exactly 1, 2, ..., n in order of declaration, n being
\* the global count; slot 0 is never bound to a name and a rejected duplicate
\* definition consumes no slot.  (Holding after every statement of the scan,
\* this makes each accepted definition take the next slot.)
C5_SlotsAreOneToN ==
    /\ Cardinality(SlotBindings) = globals
    /\ { namespaces[b[1]][b[2]].n : b \in SlotBindings } = 1..globals

\* two definitions were given slots and a duplicate was rejected
C5_Witness ==
    /\ pc = "done"
    /\ globals = 2
    /\ Len(tree) = 1
    /\ Len(tree[1].statements) = 3
    /\ \A s \in 1..3 : tree[1].statements[s].kind = "Definition"
    /\ \E i \in 1..Len(attempts) : attempts[i].message.kind = "AlreadyExists"

\* the names an expression of the model's programs reads
NamesRead(e) ==
    IF e.kind = "Get" /\ e.a.kind = "Read" THEN { e.a.name } ELSE { }

\* the statement Compiler::module is at
ModuleStmt == tree[1].statements[si]
\* the names it reads and the names it assigns
StmtReads(st) ==
    IF st.kind \in { "Print", "Definition", "StatementExpression" }
    THEN NamesRead(st.value)
    ELSE IF st.kind = "Assignment" /\ st.target.kind = "Read"
    THEN NamesRead(st.value)
    ELSE { }
StmtSets(st) ==
    IF st.kind = "Assignment" /\ st.target.kind = "Read"
    THEN { st.target.name } ELSE { }

\* the entry module's namespace binds name to a global slot
EntryBindsSlot(name) ==
    name \in DOMAIN namespaces[1] /\ namespaces[1][name].kind = "Slot"

\* what a step appended to the entry block and to the attempted errors
Emitted == { blocks'[1].ops[i] : i \in (Len(blocks[1].ops) + 1)..Len(blocks'[1].ops) }
Reported == { attempts'[i] : i \in (Len(attempts) + 1)..Len(attempts') }

\* C6: when code is generated, reading or assigning a name emits
\* ReadGlobal(s) / AssignGlobal(s) exactly when the entry module's namespace
\* binds that name to Slot(s); for a name that is unbound there, bound only
\* in another module's namespace, or bound to an import alias, no opcode is
\* emitted and a compile error is reported.
C6_EntryNamespaceOnly ==
    [][ (pc = "module" /\ ModuleStmt.kind \in { "Print", "Definition", "Assignment" }
                       /\ (ModuleStmt.kind = "Assignment" => ModuleStmt.target.kind = "Read"))
          => /\ { o \in Emitted : o.op = "ReadGlobal" } =
                  { OpN("ReadGlobal", namespaces[1][n].n) :
                      n \in { m \in StmtReads(ModuleStmt) : EntryBindsSlot(m) } }
             /\ { o \in Emitted : o.op = "AssignGlobal" } =
                  { OpN("AssignGlobal", namespaces[1][n].n) :
                      n \in { m \in StmtSets(ModuleStmt) : EntryBindsSlot(m) } }
             /\ Reported =
                  { [file |-> current_file(Self),
                     message |-> Message("NoActiveVariable", n)] :
                      n \in { m \in StmtReads(ModuleStmt) \cup StmtSets(ModuleStmt) :
                                ~EntryBindsSlot(m) } } ]_vars

\* a name bound to a slot in another module's namespace only was read in the
\* entry module: an error and no ReadGlobal
C6_Witness ==
    /\ pc = "done"
    /\ Len(namespaces) = 2
    /\ "lib" \in DOMAIN namespaces[2]
    /\ namespaces[2]["lib"].kind = "Slot"
    /\ "lib" \notin DOMAIN namespaces[1]
    /\ \E i \in 1..Len(attempts) : attempts[i].message = Message("NoActiveVariable", "lib")
    /\ \E i \in 1..Len(blocks[1].ops) : blocks[1].ops[i].op = "Print"

-----------------------------------------------------------------------------
(***************************************************************************)
(* Properties of the expression parser.                                    *)
(***************************************************************************)
Parsed == pc # "parse"

\* expression() consumed every token and returned `expr`
ParsedAs(expr) ==
    /\ parsed.ok
    /\ parsed.ctx = Len(tokens) + 1
    /\ parsed.expr = expr

\* C7: `(e)` with a single inner expression and no comma parses to e itself,
\* `(e,)` parses to the one-element tuple of e, and `()` and `(,)` parse to
\* the zero-element tuple.
C7_GroupingOrTuple ==
    Parsed =>
      /\ \A e \in GroupedSamples :
           /\ tokens = GroupForm(e.toks) => ParsedAs(e.ast)
           /\ tokens = GroupForm(e.toks \o << T("Comma") >>)
                => ParsedAs(EColl("Tuple", << e.ast >>))
      /\ tokens = GroupForm(<< >>) => ParsedAs(EColl("Tuple", << >>))
      /\ tokens = GroupForm(<< T("Comma") >>) => ParsedAs(EColl("Tuple", << >>))

C7_Witness ==
    /\ Parsed
    /\ tokens = GroupForm(<< TIdentifier("a"), T("Comma") >>)
    /\ ParsedAs(EColl("Tuple", << EGet(ARead("a")) >>))

\* C8: whenever grouping_or_tuple succeeds after parsing more than one inner
\* expression, its result is the tuple of all the parsed inner expressions in
\* order: a bare inner expression is returned only when exactly one was
\* parsed, so no parsed expression is dropped.
C8_NoElementDropped ==
    (Parsed /\ token(tokens, 1).t = "LeftParen") =>
      \/ ~grouping_or_tuple(tokens, 1).ok
      \/ Len(grouping_or_tuple(tokens, 1).exprs) <= 1
      \/ grouping_or_tuple(tokens, 1).expr
           = EColl("Tuple", grouping_or_tuple(tokens, 1).exprs)

IsMixed(entries) ==
    /\ \E i \in 1..Len(entries) : entries[i].pair
    /\ \E i \in 1..Len(entries) : ~entries[i].pair

\* C9: `{}` parses to the empty set, `{:}` to the empty dict, `{k: v}` to a
\* dict of the one pair, and a brace literal that holds both a bare value and
\* a key: value pair, in either order, is a syntax error.
C9_SetOrDict ==
    Parsed =>
      /\ tokens = BraceForm(<< >>, FALSE, FALSE) => ParsedAs(EColl("Set", << >>))
      /\ tokens = << T("LeftBrace"), T("Colon"), T("RightBrace") >>
           => ParsedAs(EColl("Dict", << >>))
      /\ \A e \in BraceEntries :
           (e.pair /\ tokens = BraceForm(<< e >>, FALSE, FALSE))
             => ParsedAs(EColl("Dict", e.ast))
      /\ \A entries \in EntryLists, comma \in BOOLEAN, trailing \in BOOLEAN :
           (IsMixed(entries) /\ tokens = BraceForm(entries, comma, trailing))
             => /\ ~parsed.ok
                /\ ~parsed.panicked
                /\ parsed.errors # << >>

C9_Witness ==
    /\ Parsed
    /\ tokens = BraceForm(<< Bare(Sample(<< TInt(1) >>, EInt(1))),
                             Pair(Sample(<< TIdentifier("a") >>, EGet(ARead("a"))),
                                  Sample(<< TInt(2) >>, EInt(2))) >>, TRUE, FALSE)
    /\ ~parsed.ok
    /\ parsed.errors = << "Empty dict pair is invalid in a set" >>

\* the statement compile is about to translate is the parsed expression
AtParsedExpression ==
    /\ pc = "module"
    /\ tree[1].statements[si] = SStatementExpression(parsed.expr)

\* C10: `a -> f(b1, .., bn)` parses to the call of f with arguments
\* [a, b1, .., bn], the same node as parsing `f(a, b1, .., bn)`, and compiles
\* to the same opcodes.
C10_ArrowIsCall ==
    [][ \A a \in ArrowOperands, args \in ArgumentLists :
          tokens = ArrowForm(a, args) =>
            /\ pc = "parse" =>
                 /\ parsed'.ok
                 /\ parsed'.ctx = Len(tokens) + 1
                 /\ parsed'.expr = EGet(ACall(ARead("f"), << a.ast >> \o Asts(args)))
                 /\ parse_expression(DirectForm(a, args), 1).ok
                 /\ parsed'.expr = parse_expression(DirectForm(a, args), 1).expr
            /\ AtParsedExpression =>
                 /\ blocks' = statement(Self, SStatementExpression(
                                 parse_expression(DirectForm(a, args), 1).expr)).blocks
                 /\ errors' = statement(Self, SStatementExpression(
                                 parse_expression(DirectForm(a, args), 1).expr)).errors
      ]_vars

C10_Witness ==
    /\ pc = "done"
    /\ tokens = ArrowForm(Sample(<< TIdentifier("x") >>, EGet(ARead("x"))),
                          << Sample(<< TInt(2) >>, EInt(2)) >>)
    /\ parsed.ok
    /\ \E i \in 1..Len(blocks[Len(blocks)].ops) :
         blocks[Len(blocks)].ops[i] = OpN("Call", 2)

\* C11: an expression in which the right-hand side of `->` is no call
\* expression (`a -> 5`) is a syntax error: expression() returns an error
\* result for it and no successfully parsed expression.
C11_NonCallArrowIsError ==
    Parsed =>
      \A a \in ArrowOperands, r \in ArrowNonCalls :
        tokens = NonCallForm(a, r) => ~parsed.ok

-----------------------------------------------------------------------------
(***************************************************************************)
(* Properties of Value.                                                    *)
(***************************************************************************)
Returned(fn) == pc = "returned" /\ input.fn = fn

\* C12: equality with a Union is membership and is symmetric: for a Union u
\* and a value v, (u == v) = (v == u) = (some member of u equals v); and two
\* values of different tags, neither a Union, compare unequal without
\* failing.
C12_UnionEqIsMembership ==
    Returned("eq") =>
      /\ ret \in BOOLEAN
      /\ ret = ValueEq(input.other, input.self)
      /\ input.self.tag = "Union"
           => ret = (\E x \in input.self.set : ValueEq(x, input.other))
      /\ input.other.tag = "Union"
           => ret = (\E x \in input.other.set : ValueEq(x, input.self))
      /\ ( /\ input.self.tag # input.other.tag
           /\ input.self.tag # "Union"
           /\ input.other.tag # "Union" ) => ret = FALSE

C12_Witness ==
    /\ Returned("eq")
    /\ input.self = VString("a")
    /\ input.other = VUnion({ VInt(1), VString("a") })
    /\ ret = TRUE

RECURSIVE IsHashable(_)
\* built from ints, bools, strings, finite floats and tuples of these
IsHashable(v) ==
    CASE v.tag \in { "Int", "Bool", "String" } -> TRUE
      [] v.tag = "Float" -> F64IsFinite(v.n)
      [] v.tag = "Tuple" -> \A i \in 1..Len(v.xs) : IsHashable(v.xs[i])
      [] OTHER -> FALSE

\* C13: for values a, b built from ints, bools, strings, finite floats and
\* tuples of these, a == b implies that Hash feeds the hasher the same data
\* for a and b; this covers every pair of finite floats that compare equal.
C13_HashAgreesWithEq ==
    ( /\ Returned("hash")
      /\ IsHashable(input.self)
      /\ IsHashable(input.other)
      /\ ValueEq(input.self, input.other) ) => ret[1] = ret[2]

RECURSIVE HoldsNonFinite(_)
\* a non-finite float, or a tuple, list, set, dict or union that holds one
\* at any depth
HoldsNonFinite(v) ==
    CASE v.tag = "Float" -> F64Exponent(v.n) = 2047
      [] v.tag \in { "Tuple", "List" } ->
            \E i \in 1..Len(v.xs) : HoldsNonFinite(v.xs[i])
      [] v.tag \in { "Set", "Union" } -> \E x \in v.set : HoldsNonFinite(x)
      [] v.tag = "Dict" ->
            \E kv \in v.pairs : HoldsNonFinite(kv[1]) \/ HoldsNonFinite(kv[2])
      [] OTHER -> FALSE

\* C14: hashing a value that is a non-finite float, or that holds one at any
\* depth, trips the assertion, so no such value becomes a key of the
\* interning map: the call of Compiler::constant panics and leaves the map
\* and the pool as they were.
C14_NonFiniteNeverKey ==
    [][ pc = "pool" =>
          /\ \A k \in DOMAIN values' : ~HoldsNonFinite(k)
          /\ HoldsNonFinite(input') =>
               /\ crashed'
               /\ values' = values
               /\ constants' = constants ]_vars

-----------------------------------------------------------------------------
(***************************************************************************)
(* Properties of the extern functions.                                     *)
(***************************************************************************)
IsIntPair(v) ==
    /\ v.tag = "Tuple"
    /\ Len(v.xs) = 2
    /\ v.xs[1].tag = "Int"
    /\ v.xs[2].tag = "Int"

\* the arguments the signature of the extern function asks for
WellShaped(fn, vals) ==
    IF fn = "l_load_image"
    THEN Len(vals) = 2 /\ vals[1].tag = "String" /\ IsIntPair(vals[2])
    ELSE Len(vals) = 1 /\ vals[1].tag = "String"

\* the same call in the real mode, from the same game
RealMode ==
    IF input'.fn = "l_load_image"
    THEN l_load_image(game, input'.values, FALSE)
    ELSE l_load_audio(game, input'.values, FALSE)

IsTagAndInt(v) ==
    /\ v.tag = "Tuple"
    /\ Len(v.xs) = 2
    /\ v.xs[1].tag = "String"
    /\ v.xs[2].tag = "Int"

\* C15: l_load_image and l_load_audio called with typecheck = true and
\* well-shaped arguments leave the game state unchanged and return a
\* two-element tuple of a String tag and an Int, the shape (and the tag) the
\* real mode returns for the same arguments.
C15_TypecheckHasNoEffect ==
    [][ ( /\ pc = "extern"
          /\ input'.typecheck
          /\ WellShaped(input'.fn, input'.values) )
        => /\ game' = game
           /\ ~crashed'
           /\ ret'.ok
           /\ IsTagAndInt(ret'.value)
           /\ RealMode.ret.ok
           /\ IsTagAndInt(RealMode.ret.value)
           /\ RealMode.ret.value.xs[1] = ret'.value.xs[1] ]_vars

C15_Witness ==
    /\ Len(log) = 2
    /\ input.fn = "l_load_image"
    /\ input.typecheck
    /\ WellShaped(input.fn, input.values)
    /\ Len(game.sheets) = 1
    /\ ret = ExternOk(VTuple(<< VString("image"), VInt(0) >>))

\* C16: called in either mode with an argument list of the wrong length or
\* with an argument of the wrong variant (a tile size that is no tuple of two
\* ints included), l_load_image and l_load_audio return
\* Err(ExternTypeMismatch) listing the argument types; they neither panic nor
\* change the game state.
C16_MismatchIsError ==
    [][ ( /\ pc = "extern"
          /\ ~WellShaped(input'.fn, input'.values) )
        => /\ ~crashed'
           /\ game' = game
           /\ ~ret'.ok
           /\ ret'.error.kind = "ExternTypeMismatch"
           /\ ret'.error.types
                = [ i \in 1..Len(input'.values) |-> TypeOf(input'.values[i]) ] ]_vars

\* C17: every ExternTypeMismatch an extern function returns carries the name
\* of the extern function that was called.
C17_MismatchNamesCallee ==
    [][ ( /\ pc = "extern"
          /\ ~crashed'
          /\ ~ret'.ok )
        => ret'.error.name = input'.fn ]_vars

-----------------------------------------------------------------------------
(***************************************************************************)
(* Properties of run_file.                                                 *)
(***************************************************************************)
StagesRun == [ i \in 1..Len(log) |-> log[i].stage ]

IsPrefix(xs, ys) ==
    /\ Len(xs) <= Len(ys)
    /\ \A i \in 1..Len(xs) : xs[i] = ys[i]

\* what the stage called name answers in this world
Answer(name) ==
    CASE name = "compile" -> lib_compile(input.args, world)
      [] name = "typecheck" -> world.typecheck
      [] name = "run" -> world.run

\* C18: run_file invokes compile, typecheck and run in this order, each at
\* most once; a stage is invoked only after every stage before it answered
\* Ok; run_file returns the errors of the stage that failed, and Ok when
\* none did; run called on its own invokes the VM and never the typechecker.
C18_StagesInOrder ==
    /\ input.entry = "run_file"
         => /\ IsPrefix(StagesRun, << "compile", "typecheck", "run" >>)
            /\ \A i \in 1..Len(log) : \A j \in 1..(i - 1) : Answer(log[j].stage).ok
            /\ pc = "done"
                 => /\ ret = Answer(log[Len(log)].stage)
                    /\ ret.ok => Len(log) = 3
            /\ pc # "done"
                 => /\ ret = "none"
                    /\ \A i \in 1..Len(log) : Answer(log[i].stage).ok
    /\ input.entry = "run"
         => /\ IsPrefix(StagesRun, << "run" >>)
            /\ pc = "done" => ret = world.run

C18_Witness ==
    /\ input.entry = "run_file"
    /\ pc = "done"
    /\ StagesRun = << "compile", "typecheck" >>
    /\ ret = StageErr(<< "TypeError", "TypeError" >>)

-----------------------------------------------------------------------------
(***************************************************************************)
(* Properties of the default value of a type.                              *)
(***************************************************************************)
\* is v the default value the types built from Int, Float, Bool, String,
\* Void, Unknown, Invalid, List, Set, Dict and Tuple are said to have?
RECURSIVE IsDefaultOf(_, _)
IsDefaultOf(v, ty) ==
    CASE ty.tag = "Int" -> v = VInt(1)
      [] ty.tag = "Float" -> v = VFloat(16368)
      [] ty.tag = "Bool" -> v = VBool(TRUE)
      [] ty.tag = "String" -> v = VString("")
      [] ty.tag = "Void" -> v = VNil
      [] ty.tag \in { "Unknown", "Invalid" } -> v = VUnknown
      [] ty.tag = "List" ->
            v.tag = "List" /\ Len(v.xs) = 1 /\ IsDefaultOf(v.xs[1], ty.of)
      [] ty.tag = "Set" ->
            /\ v.tag = "Set"
            /\ Cardinality(v.set) = 1
            /\ \A x \in v.set : IsDefaultOf(x, ty.of)
      [] ty.tag = "Dict" ->
            /\ v.tag = "Dict"
            /\ Cardinality(v.pairs) = 1
            /\ \A kv \in v.pairs : IsDefaultOf(kv[1], ty.key) /\ IsDefaultOf(kv[2], ty.value)
      [] ty.tag = "Tuple" ->
            /\ v.tag = "Tuple"
            /\ Len(v.xs) = Len(ty.fields)
            /\ \A i \in 1..Len(v.xs) : IsDefaultOf(v.xs[i], ty.fields[i])
      [] OTHER -> TRUE

\* C19: the conversion from a Type to its default Value never fails, and
\* gives Int(1), Float(1.0), Bool(true), the empty String, Nil for Void,
\* Unknown for Unknown and Invalid, a one-element List or Set holding the
\* default of the element type, a one-pair Dict of the defaults of key and
\* value type, and for a Tuple type the tuple of the defaults of its fields.
C19_DefaultValueOfType ==
    input.fn = "from"
    => /\ ~crashed
       /\ pc = "returned" => IsDefaultOf(ret, input.ty)

C19_Witness ==
    /\ pc = "returned"
    /\ input.fn = "from"
    /\ input.ty = TyDict(Ty1("Set", Ty0("Float")), TyTuple(<< Ty0("Int"), Ty0("Bool") >>))
    /\ ret = VDict({ << VSet({ VFloat(16368) }),
                        VTuple(<< VInt(1), VBool(TRUE) >>) >> })

-----------------------------------------------------------------------------
(***************************************************************************)
(* Properties of the benchmark harness.                                    *)
(***************************************************************************)
\* C20: started with --runs N, the harness runs the program at most N
\* times: the calls of sylt::run in one invocation never exceed N.
C20_AtMostMaxRuns ==
    input.max_runs.some => Len(log) <= input.max_runs.n

-----------------------------------------------------------------------------
(***************************************************************************)
(* Properties of precedence climbing.                                      *)
(***************************************************************************)
ClassRank(o) == PrecRank(precedence(T(o)))

\* C21: parse_precedence consumes an infix operator only when its class is
\* at least the one asked for and parses the right-hand side at the
\* next-higher class: in `1 o1 2 o2 3` the second operator takes `2` as its
\* left operand exactly when its class is higher than the first one's, and
\* otherwise the chain nests to the left (1 - 2 - 3 is Sub(Sub(1, 2), 3),
\* 1 + 2 * 3 is Add(1, Mul(2, 3)), 1 * 2 + 3 is Add(Mul(1, 2), 3)).
C21_PrecedenceClimbing ==
    Parsed =>
      \A o1 \in OperatorTokens, o2 \in OperatorTokens :
        tokens = OperatorForm(o1, o2)
        => ParsedAs(IF ClassRank(o2) > ClassRank(o1)
                    THEN EBin(InfixKind(o1), EInt(1),
                              EBin(InfixKind(o2), EInt(2), EInt(3)))
                    ELSE EBin(InfixKind(o2),
                              EBin(InfixKind(o1), EInt(1), EInt(2)), EInt(3)))

C21_Witness ==
    /\ Parsed
    /\ tokens = OperatorForm("Minus", "Minus")
    /\ ParsedAs(EBin("Sub", EBin("Sub", EInt(1), EInt(2)), EInt(3)))

-----------------------------------------------------------------------------
(***************************************************************************)
(* Properties of the generated code.                                       *)
(***************************************************************************)
\* the opcodes of the entry block before and after the step
Ops == blocks[1].ops
OpsAfter == blocks'[1].ops

\* the step compiles a statement that is the expression of one of `kinds`
CompilesExpression(kinds) ==
    /\ pc = "module"
    /\ ModuleStmt.kind = "StatementExpression"
    /\ ModuleStmt.value.kind \in kinds

\* the opcodes the claim gives the comparisons
ComparisonOps(kind) ==
    CASE kind = "Neq" -> << Op("Equal"), Op("Not") >>
      [] kind = "Gteq" -> << Op("Less"), Op("Not") >>
      [] kind = "Lteq" -> << Op("Greater"), Op("Not") >>
      [] kind = "Eq" -> << Op("Equal") >>
      [] kind = "Gt" -> << Op("Greater") >>
      [] kind = "Lt" -> << Op("Less") >>

\* C22: for a comparison of a and b the compiler emits the code of a, then
\* the code of b, then Equal, Not for !=; Less, Not for >=; Greater, Not for
\* <=; and the single opcode Equal, Greater or Less for ==, > and <.
C22_ComparisonOpcodes ==
    [][ CompilesExpression({ "Neq", "Gteq", "Lteq", "Eq", "Gt", "Lt" })
        => OpsAfter =
             expression(expression(Self, ModuleStmt.value.l), ModuleStmt.value.r).blocks[1].ops
             \o ComparisonOps(ModuleStmt.value.kind) ]_vars

C22_Witness ==
    /\ pc = "finish"
    /\ tree[1].statements[2]
         = SStatementExpression(EBin("Gteq", EGet(ARead("x")), EBin("Add", EInt(1), EInt(2))))
    /\ Len(Ops) = 8
    /\ Ops[3] = OpN("ReadGlobal", 1)
    /\ Ops[6] = Op("Add")
    /\ Ops[7] = Op("Less")
    /\ Ops[8] = Op("Not")

\* the compiler after the code of the first i of the expressions xs, each
\* compiled after the one before it
RECURSIVE InSourceOrder(_, _)
InSourceOrder(xs, i) ==
    IF i = 0 THEN Self ELSE expression(InSourceOrder(xs, i - 1), xs[i])

\* C23: for a tuple, list, set or dict literal the compiler emits the code
\* of each element expression in source order and then exactly one build
\* opcode of the literal's kind whose operand is the number of element
\* expressions of the literal (for a dict, its keys and values together).
C23_LiteralBuildOpcode ==
    [][ CompilesExpression(CollKinds)
        => OpsAfter =
             InSourceOrder(ModuleStmt.value.xs, Len(ModuleStmt.value.xs)).blocks[1].ops
             \o << OpN(ModuleStmt.value.kind, Len(ModuleStmt.value.xs)) >> ]_vars

C23_Witness ==
    /\ pc = "finish"
    /\ tree[1].statements[2]
         = SStatementExpression(EColl("Dict", << EInt(2), EGet(ARead("x")) >>))
    /\ Len(Ops) = 5
    /\ Ops[3] = OpN("Constant", 2)
    /\ Ops[4] = OpN("ReadGlobal", 1)
    /\ Ops[5] = OpN("Dict", 2)

\* the push of the constant Nil, by the pool as it is after the step
IsNilPush(o) ==
    /\ o.op = "Constant"
    /\ o.n + 1 \in 1..Len(constants')
    /\ constants'[o.n + 1] = VNil

\* C24: in every compile the entry block begins with exactly n pushes of the
\* Nil constant, n being the global count extract_globals returned, and ends
\* with one push of the Nil constant followed by Return; all these pushes
\* use one and the same constant-pool index.
C24_NilPushes ==
    [][ /\ pc = "init_globals"
          => /\ Ops = << >>
             /\ Len(OpsAfter) = globals
             /\ \A i \in 1..globals : IsNilPush(OpsAfter[i]) /\ OpsAfter[i] = OpsAfter[1]
        /\ pc = "finish"
          => /\ Len(OpsAfter) = Len(Ops) + 2
             /\ \A i \in 1..Len(Ops) : OpsAfter[i] = Ops[i]
             /\ IsNilPush(OpsAfter[Len(Ops) + 1])
             /\ OpsAfter[Len(Ops) + 2] = Op("Return")
             /\ \A i \in 1..globals : OpsAfter[i] = OpsAfter[Len(Ops) + 1] ]_vars

C24_Witness ==
    /\ pc = "done"
    /\ globals = 2
    /\ Len(Ops) = 6
    /\ Ops[1] = OpN("Constant", 0)
    /\ Ops[2] = OpN("Constant", 0)
    /\ Ops[5] = OpN("Constant", 0)
    /\ Ops[6] = Op("Return")
    /\ constants[1] = VNil

-----------------------------------------------------------------------------
(***************************************************************************)
(* Properties of the blob attempt of prefix().                             *)
(***************************************************************************)
\* expression() returned `expr` and stands at token p
ParsedUpTo(p, expr) ==
    /\ parsed.ok
    /\ parsed.ctx = p
    /\ parsed.expr = expr

\* C25: when an expression starts with an identifier, prefix first tries
\* the blob instantiation; when that fails (a well-formed blob literal
\* directly followed by `else` included), the identifier is parsed as an
\* assignable from the original position and the result is Get(assignable),
\* no token of the failed attempt staying consumed.
C25_BlobOrAssignable ==
    Parsed =>
      \A name \in BlobNames, init \in BlobInitializers :
        tokens = BlobForm(name, init)
        => IF init.blob
           THEN ParsedAs(EInstance(name.ast, init.fields))
           ELSE ParsedUpTo(Len(name.toks) + 1, EGet(name.ast))

C25_Witness ==
    /\ Parsed
    /\ tokens = << TIdentifier("x"), T("LeftBrace"), TIdentifier("a"), T("Colon"),
                   TInt(1), T("RightBrace"), T("Else") >>
    /\ ParsedUpTo(2, EGet(ARead("x")))

-----------------------------------------------------------------------------
(***************************************************************************)
(* Properties of the Dict and Set nodes of set_or_dict().                  *)
(***************************************************************************)
\* the expressions of the entries of a brace literal, in source order
RECURSIVE EntryAsts(_)
EntryAsts(entries) ==
    IF entries = << >> THEN << >>
    ELSE entries[1].ast \o EntryAsts(Slice(entries, 2, Len(entries)))

\* C28: every Dict literal set_or_dict returns holds an even number of
\* expressions, alternating key and value in source order; every literal it
\* returns with a `:` of its own is a Dict, and a literal is returned as a
\* Set only when it consumed no `:` of its own.
C28_DictHoldsPairs ==
    (Parsed /\ parsed.ok) =>
      /\ \A entries \in EntryLists, comma \in BOOLEAN, trailing \in BOOLEAN :
           tokens = BraceForm(entries, comma, trailing)
           => /\ parsed.expr.kind \in { "Dict", "Set" }
              /\ parsed.expr.xs = EntryAsts(entries)
              /\ parsed.expr.kind = "Dict"
                   => /\ Len(parsed.expr.xs) = 2 * Len(entries)
                      /\ \A i \in 1..Len(entries) : entries[i].pair
              /\ parsed.expr.kind = "Set"
                   => \A i \in 1..Len(entries) : ~entries[i].pair
              /\ (\E i \in 1..Len(entries) : entries[i].pair)
                   => parsed.expr.kind = "Dict"
      /\ \A form \in BraceSamples : tokens = form.toks => ParsedAs(form.ast)

C28_Witness ==
    /\ Parsed
    /\ tokens = << T("LeftBrace"), TInt(1), T("Colon"), TInt(2), T("Comma"),
                   TIdentifier("a"), T("Colon"), TInt(2), T("RightBrace") >>
    /\ ParsedAs(EColl("Dict", << EInt(1), EInt(2), EGet(ARead("a")), EInt(2) >>))

-----------------------------------------------------------------------------
(***************************************************************************)
(* Properties of the code of assignments and negations.                    *)
(***************************************************************************)
\* C26: for every assignment statement the compiler emits the code of the
\* assigned value exactly once: for a plain-name target bound to a slot, the
\* value's code followed by AssignGlobal(slot) and nothing more; for an index
\* target, the code of the target, the index and the value, then AssignIndex
\* and nothing more.
C26_ValueEmittedOnce ==
    [][ (pc = "module" /\ ModuleStmt.kind = "Assignment")
        => /\ (ModuleStmt.target.kind = "Read" /\ EntryBindsSlot(ModuleStmt.target.name))
                => OpsAfter =
                     expression(Self, ModuleStmt.value).blocks[1].ops
                     \o << OpN("AssignGlobal", namespaces[1][ModuleStmt.target.name].n) >>
           /\ ModuleStmt.target.kind = "Index"
                => OpsAfter =
                     expression(expression(assignable(Self, ModuleStmt.target.a),
                                           ModuleStmt.target.e),
                                ModuleStmt.value).blocks[1].ops
                     \o << Op("AssignIndex") >> ]_vars

\* C27: for the boolean negation Not(e) the compiler emits the code of e
\* followed by the Not opcode, and for the arithmetic negation Neg(e) the
\* code of e followed by Neg, so the two compile to different opcode
\* sequences.
C27_NotIsNotNeg ==
    [][ CompilesExpression({ "Not", "Neg" })
        => OpsAfter =
             expression(Self, ModuleStmt.value.e).blocks[1].ops
             \o << Op(ModuleStmt.value.kind) >> ]_vars

====
